---- MODULE Spec2Model ----
(***************************************************************************)
(* A model of the CHIP-8 virtual machine of rusty-chip-8-emu: the machine  *)
(* frame, the instruction decoder and execution engine (src/src/vm/vm.rs), *)
(* the Display (src/src/vm/display.rs), the Timer (src/src/vm/timer.rs),   *)
(* the tick scheduler, the time-travel debugger and the Runner's two       *)
(* threads (src/src/runner.rs).                                            *)
(***************************************************************************)
EXTENDS Integers, Sequences, FiniteSets, TLC

(***************************************************************************)
(* Program constants.                                                      *)
(***************************************************************************)
VM_ORIGINAL_HZ == 60

VM_INTERPRETER_SIZE == 512

VM_DISPLAY_REFRESH_SIZE == 256

VM_INTERNAL_SIZE == 96

VM_RESERVED_BEGIN == VM_INTERPRETER_SIZE

VM_RESERVED_END == VM_DISPLAY_REFRESH_SIZE + VM_INTERNAL_SIZE

MEMORY_SIZE == 4096

ROM_SIZE == MEMORY_SIZE - VM_RESERVED_BEGIN - VM_RESERVED_END

REGISTER_COUNT == 16

PC_INCREMENT == 2

\* The constants module (vm::constants) is taken from the design document and
\* from the uses the code makes of it.
PC_START == 512

SCREEN_SIZE_X == 64

SCREEN_SIZE_Y == 32

SCREEN_SIZE == SCREEN_SIZE_X * SCREEN_SIZE_Y

FONT_SYMBOL_SIZE == 5

TIMER_DURATION_NANO == 16666666

FONTS ==
  << 240, 144, 144, 144, 240,    32,  96,  32,  32, 112,
     240,  16, 240, 128, 240,   240,  16, 240,  16, 240,
     144, 144, 240,  16,  16,   240, 128, 240,  16, 240,
     240, 128, 240, 144, 240,   240,  16,  32,  64,  64,
     240, 144, 240, 144, 240,   240, 144, 240,  16, 240,
     240, 144, 240, 144, 144,   224, 144, 224, 144, 224,
     240, 128, 128, 128, 240,   224, 144, 144, 144, 224,
     240, 128, 240, 128, 240,   240, 128, 240, 128, 128 >>

(***************************************************************************)
(* Fixed-width integer helpers (u8 and u16 arithmetic of the source).      *)
(***************************************************************************)
U8 == 256

U16 == 65536

RECURSIVE BitAnd(_, _)
BitAnd(a, b) ==
  IF a = 0 \/ b = 0 THEN 0
  ELSE (IF a % 2 = 1 /\ b % 2 = 1 THEN 1 ELSE 0) + 2 * BitAnd(a \div 2, b \div 2)

RECURSIVE BitOr(_, _)
BitOr(a, b) ==
  IF a = 0 THEN b
  ELSE IF b = 0 THEN a
  ELSE (IF a % 2 = 1 \/ b % 2 = 1 THEN 1 ELSE 0) + 2 * BitOr(a \div 2, b \div 2)

RECURSIVE BitXor(_, _)
BitXor(a, b) ==
  IF a = 0 THEN b
  ELSE IF b = 0 THEN a
  ELSE (IF a % 2 # b % 2 THEN 1 ELSE 0) + 2 * BitXor(a \div 2, b \div 2)

(***************************************************************************)
(* Timer (src/src/vm/timer.rs): raw nanoseconds, scaled 60 Hz view.  The   *)
(* u128 of a timer reaches 255 * TIMER_DURATION_NANO, past the integers    *)
(* the model checker computes with, so it is held as its quotient          *)
(* ("scaled") and remainder ("nanos") by TIMER_DURATION_NANO; two timers   *)
(* are equal iff these are.                                                *)
(***************************************************************************)
\* The timer whose u128 is n.
Timer_of(n) == [scaled |-> n \div TIMER_DURATION_NANO, nanos |-> n % TIMER_DURATION_NANO]

Timer_new == Timer_of(0)

\* *timer > 0
Timer_positive(t) == t.scaled > 0 \/ t.nanos > 0

\* a < b on the u128s.
Timer_less(a, b) == a.scaled < b.scaled \/ (a.scaled = b.scaled /\ a.nanos < b.nanos)

\* a - b on the u128s, for b <= a (and below zero when b > a).
Timer_minus(a, b) ==
  IF a.nanos >= b.nanos
  THEN [scaled |-> a.scaled - b.scaled, nanos |-> a.nanos - b.nanos]
  ELSE [scaled |-> a.scaled - b.scaled - 1, nanos |-> a.nanos + TIMER_DURATION_NANO - b.nanos]

\* A subtraction that does not saturate.
SaturatingSub_Plain(a, b) == Timer_minus(a, Timer_of(b))

\* u128::saturating_sub of the nanoseconds b from the timer a.
SaturatingSub(a, b) ==
  IF Timer_less(Timer_of(b), a) THEN Timer_minus(a, Timer_of(b)) ELSE Timer_new

get_scaled(t) == t.scaled % U8

\* A set that stores the value as nanoseconds, without the scale.
set_scaled_Raw(value) == Timer_of(value)

set_scaled(value) == [scaled |-> value, nanos |-> 0]

(***************************************************************************)
(* Byte arrays.  The memory [u8; MEMORY_SIZE] and the screen               *)
(* [u8; SCREEN_SIZE] are fixed-size arrays, almost everywhere zero.  An    *)
(* array is held as the function from the indices of its non-zero bytes to *)
(* those bytes, so two arrays are equal iff their representations are; an  *)
(* index outside the array is the caller's to reject (the source panics).  *)
(***************************************************************************)
ZeroArray == << >>

At(array, i) == IF i \in DOMAIN array THEN array[i] ELSE 0

\* The array with the bytes of "writes" (index -> byte) stored into it.
Store(array, writes) ==
  LET val(i) == IF i \in DOMAIN writes THEN writes[i] ELSE array[i]
  IN  [i \in {j \in DOMAIN array \cup DOMAIN writes : val(j) # 0} |-> val(i)]

(***************************************************************************)
(* The machine frame.                                                      *)
(***************************************************************************)
EmptyScreen == ZeroArray

VmFrame_new ==
  [ registers   |-> [r \in 0 .. REGISTER_COUNT - 1 |-> 0],
    stack       |-> << >>,
    memory      |-> ZeroArray,
    PC          |-> PC_START,
    I           |-> 0,
    delay_timer |-> Timer_new,
    sound_timer |-> Timer_new,
    screen      |-> EmptyScreen ]

\* A loader that forgets the font table.
InitialMemory_NoFonts(rom) ==
  Store(ZeroArray, [a \in VM_RESERVED_BEGIN .. Len(rom) + VM_RESERVED_BEGIN - 1 |->
                      rom[a - VM_RESERVED_BEGIN + 1]])

\* Vm::new, the successful branch: the ROM copied to VM_RESERVED_BEGIN, the
\* fonts to address 0, one initial frame.
InitialMemory(rom) ==
  LET with_rom == Store(ZeroArray, [a \in VM_RESERVED_BEGIN .. Len(rom) + VM_RESERVED_BEGIN - 1 |->
                                      rom[a - VM_RESERVED_BEGIN + 1]])
  IN  Store(with_rom, [n \in 0 .. Len(FONTS) - 1 |-> FONTS[n + 1]])

InitialFrame(rom) == [VmFrame_new EXCEPT !.memory = InitialMemory(rom)]

\* tick_duration as Vm::new computes it from config.hz
\* ((10^9 / 60) as f64 / (hz / 60) as f64, truncated).
NANO_1_SEC == 1000000000

TickDuration(hz) ==
  IF hz = 0 THEN 0
  ELSE ((NANO_1_SEC \div VM_ORIGINAL_HZ) * VM_ORIGINAL_HZ) \div hz

(***************************************************************************)
(* Instruction decoder (Vm::decode).  A decoded instruction is a record    *)
(* holding the variant's name and exactly the fields the variant carries.  *)
(***************************************************************************)
OpUnknown == [op |-> "Unknown"]

decode_8(code, x, y) ==
  LET sub_code == code % 16
  IN  CASE sub_code = 0  -> [op |-> "Assign", x |-> x, y |-> y]
        [] sub_code = 1  -> [op |-> "BitOp_Or", x |-> x, y |-> y]
        [] sub_code = 2  -> [op |-> "BitOp_And", x |-> x, y |-> y]
        [] sub_code = 3  -> [op |-> "BitOp_Xor", x |-> x, y |-> y]
        [] sub_code = 4  -> [op |-> "Math_Add", x |-> x, y |-> y]
        [] sub_code = 5  -> [op |-> "Math_Minus", x |-> x, y |-> y]
        [] sub_code = 6  -> [op |-> "BitOp_Shift_Right", x |-> x, y |-> y]
        [] sub_code = 7  -> [op |-> "Math_Minus_Reverse", x |-> x, y |-> y]
        [] sub_code = 14 -> [op |-> "BitOp_Shift_Left", x |-> x, y |-> y]
        [] OTHER         -> OpUnknown

\* A group 0xE that dispatches on the low nibble alone.
decode_E_LowNibble(code, x) ==
  LET sub_code == code % 16
  IN  CASE sub_code = 14 -> [op |-> "KeyOp_Skip_Pressed", x |-> x]
        [] sub_code = 1  -> [op |-> "KeyOp_Skip_Not_Pressed", x |-> x]
        [] OTHER         -> OpUnknown

decode_E(code, x) ==
  LET sub_code == code % 256
  IN  CASE sub_code = 158 -> [op |-> "KeyOp_Skip_Pressed", x |-> x]
        [] sub_code = 161 -> [op |-> "KeyOp_Skip_Not_Pressed", x |-> x]
        [] OTHER          -> OpUnknown

decode_F(code, x) ==
  LET sub_code == code % 256
  IN  CASE sub_code = 7   -> [op |-> "Timer_Delay_Get", x |-> x]
        [] sub_code = 10  -> [op |-> "KeyOp_Await", x |-> x]
        [] sub_code = 21  -> [op |-> "Timer_Delay_Set", x |-> x]
        [] sub_code = 24  -> [op |-> "Sound_Set", x |-> x]
        [] sub_code = 30  -> [op |-> "MEM_Add_I", x |-> x]
        [] sub_code = 41  -> [op |-> "MEM_Set_Sprite_I", x |-> x]
        [] sub_code = 51  -> [op |-> "BCD", x |-> x]
        [] sub_code = 85  -> [op |-> "MEM_Reg_Dump", x |-> x]
        [] sub_code = 101 -> [op |-> "MEM_Reg_Load", x |-> x]
        [] OTHER          -> OpUnknown

decode(code) ==
  LET op  == code \div 4096
      x   == (code \div 256) % 16
      y   == (code \div 16) % 16
      n   == code % 16
      nn  == code % 256
      nnn == code % 4096
  IN  CASE op = 0 ->
             (CASE nnn = 224 -> [op |-> "Disp_Clear"]
                [] nnn = 238 -> [op |-> "Flow_Return"]
                [] OTHER     -> [op |-> "Raw_Call", nnn |-> nnn])
        [] op = 1  -> [op |-> "Flow_Jump", nnn |-> nnn]
        [] op = 2  -> [op |-> "Flow_Call", nnn |-> nnn]
        [] op = 3  -> [op |-> "Cond_Eq_Const", x |-> x, nn |-> nn]
        [] op = 4  -> [op |-> "Cond_Neq_Const", x |-> x, nn |-> nn]
        [] op = 5  -> [op |-> "Cond_Eq_Reg", x |-> x, y |-> y]
        [] op = 6  -> [op |-> "Const_Set_Reg", x |-> x, nn |-> nn]
        [] op = 7  -> [op |-> "Const_Add_Reg", x |-> x, nn |-> nn]
        [] op = 8  -> decode_8(code, x, y)
        [] op = 9  -> [op |-> "Cond_Neq_Reg", x |-> x, y |-> y]
        [] op = 10 -> [op |-> "MEM_Set_I", nnn |-> nnn]
        [] op = 11 -> [op |-> "Flow_Jump_Offset", nnn |-> nnn]
        [] op = 12 -> [op |-> "Rand", x |-> x, nn |-> nn]
        [] op = 13 -> [op |-> "Disp", x |-> x, y |-> y, n |-> n]
        [] op = 14 -> decode_E(code, x)
        [] op = 15 -> decode_F(code, x)
        [] OTHER   -> OpUnknown

\* Vm::fetch: the big-endian word at PC.  The slice PC .. PC + 2 must lie in
\* memory, otherwise the thread panics.
fetch_in_range(frame) == frame.PC + 2 <= MEMORY_SIZE

fetch(frame) == At(frame.memory, frame.PC) * 256 + At(frame.memory, frame.PC + 1)

(***************************************************************************)
(* Display (VmDisplay in src/src/vm/display.rs).                           *)
(***************************************************************************)
clear(screen) == Store(screen, [p \in DOMAIN screen |-> 0])

set_screen_Noop(screen, new_screen) == screen

set_screen(screen, new_screen) == new_screen

Pow2(k) == CASE k = 0 -> 1 [] k = 1 -> 2 [] k = 2 -> 4 [] k = 3 -> 8
             [] k = 4 -> 16 [] k = 5 -> 32 [] k = 6 -> 64 [] k = 7 -> 128

\* pixels & (0x80 >> sprite_x) != 0
SpriteBit(pixels, sprite_x) == (pixels \div Pow2(7 - sprite_x)) % 2 = 1

\* The framebuffer indices a sprite touches: set sprite bits whose index is
\* below SCREEN_SIZE.  Two different (sprite_x, sprite_y) never share an index.
SpritePixels(x, y, height, memory, I) ==
  { pixel_index \in
      { x + sprite_x + ((y + sprite_y) * SCREEN_SIZE_X) :
          <<sprite_x, sprite_y>> \in
            { q \in (0 .. 7) \X (0 .. height - 1) : SpriteBit(At(memory, I + q[2]), q[1]) } } :
      pixel_index < SCREEN_SIZE }

\* draw_sprite adding the sprite bit to the byte instead of XORing it.
draw_sprite_Adds(screen, x, y, height, memory, I) ==
  LET hit == SpritePixels(x, y, height, memory, I)
  IN  [ screen |-> Store(screen, [p \in hit |-> (At(screen, p) + 1) % U8]),
        state  |-> IF \E p \in hit : At(screen, p) = 1 THEN "Changed" ELSE "Unchanged" ]

\* draw_sprite: the new screen and the DisplayState.
draw_sprite(screen, x, y, height, memory, I) ==
  LET hit == SpritePixels(x, y, height, memory, I)
  IN  [ screen |-> Store(screen, [p \in hit |-> BitXor(At(screen, p), 1)]),
        state  |-> IF \E p \in hit : At(screen, p) = 1 THEN "Changed" ELSE "Unchanged" ]

(***************************************************************************)
(* Execution engine (Vm::execute and the op_* methods).  An operation      *)
(* works on the machine "m": the frame being built, the Display's screen,  *)
(* the Audio playing flag, the result of the cycle and whether the thread  *)
(* panicked on an index out of range.                                      *)
(***************************************************************************)
\* An advance of one byte.
increment_pc_Byte(frame) == [frame EXCEPT !.PC = @ + 1]

increment_pc(frame) == [frame EXCEPT !.PC = @ + PC_INCREMENT]

set_vf_flag(frame, value) == [frame EXCEPT !.registers[15] = value]

op_sound_set(m, value) ==
  [m EXCEPT !.playing = TRUE, !.frame.sound_timer = set_scaled(value)]

\* An await that stores the key and stays on the instruction.
op_await_key_NoAdvance(m, reg, pressed_keys) ==
  IF Len(pressed_keys) = 0 THEN m
  ELSE [m EXCEPT !.frame.registers[reg] = pressed_keys[1]]

\* Input::get_pressed_key of GGEZInput: the first pressed key, if any.
op_await_key(m, reg, pressed_keys) ==
  IF Len(pressed_keys) = 0 THEN m
  ELSE [m EXCEPT !.frame = increment_pc([m.frame EXCEPT !.registers[reg] = pressed_keys[1]])]

\* A test that looks at the first pressed key only.
op_key_conditional_jump_FirstOnly(m, key, jump_if_pressed, pressed_keys) ==
  LET is_pressed == Len(pressed_keys) > 0 /\ pressed_keys[1] = key
  IN  IF is_pressed = jump_if_pressed THEN [m EXCEPT !.frame = increment_pc(m.frame)] ELSE m

\* Input::is_pressed of GGEZInput: membership in pressed_keys.
op_key_conditional_jump(m, key, jump_if_pressed, pressed_keys) ==
  LET is_pressed == \E i \in 1 .. Len(pressed_keys) : pressed_keys[i] = key
  IN  IF is_pressed = jump_if_pressed THEN [m EXCEPT !.frame = increment_pc(m.frame)] ELSE m

op_key_pressed(m, key, pressed_keys) == op_key_conditional_jump(m, key, TRUE, pressed_keys)

op_key_not_pressed(m, key, pressed_keys) == op_key_conditional_jump(m, key, FALSE, pressed_keys)

op_rand(m, reg, mask, number) == [m EXCEPT !.frame.registers[reg] = BitAnd(number, mask)]

\* A right shift that stores the result before it takes the flag from it.
op_right_shift_FlagAfter(m, reg, store_reg) ==
  LET f1 == [m.frame EXCEPT !.registers[store_reg] = m.frame.registers[reg] \div 2]
  IN  [m EXCEPT !.frame = set_vf_flag(f1, f1.registers[reg] % 2)]

op_right_shift(m, reg, store_reg) ==
  LET f1 == set_vf_flag(m.frame, m.frame.registers[reg] % 2)
  IN  [m EXCEPT !.frame = [f1 EXCEPT !.registers[store_reg] = f1.registers[reg] \div 2]]

op_left_shift(m, reg, store_reg) ==
  LET f1 == set_vf_flag(m.frame, m.frame.registers[reg] \div 128)
  IN  [m EXCEPT !.frame = [f1 EXCEPT !.registers[store_reg] = (f1.registers[reg] * 2) % U8]]

\* An addition that raises the flag only when the sum is above 256.
op_math_add_CarryLate(m, reg1, reg2, store_reg) ==
  LET a == m.frame.registers[reg1]
      b == m.frame.registers[reg2]
      f1 == [m.frame EXCEPT !.registers[store_reg] = (a + b) % U8]
  IN  [m EXCEPT !.frame = set_vf_flag(f1, IF a + b > U8 THEN 1 ELSE 0)]

\* op_math with overflowing_add: the result is stored first, the flag after.
op_math_add(m, reg1, reg2, store_reg) ==
  LET a == m.frame.registers[reg1]
      b == m.frame.registers[reg2]
      f1 == [m.frame EXCEPT !.registers[store_reg] = (a + b) % U8]
  IN  [m EXCEPT !.frame = set_vf_flag(f1, IF a + b >= U8 THEN 1 ELSE 0)]

\* op_math with overflowing_sub: the flag is 0 on borrow, 1 otherwise.
op_math_minus(m, reg1, reg2, store_reg) ==
  LET a == m.frame.registers[reg1]
      b == m.frame.registers[reg2]
      f1 == [m.frame EXCEPT !.registers[store_reg] = (a - b + U8) % U8]
  IN  [m EXCEPT !.frame = set_vf_flag(f1, IF a < b THEN 0 ELSE 1)]

op_clear(m) == [m EXCEPT !.screen = clear(m.screen)]

\* The slice memory[I .. I + 8 * height] must lie in memory.
op_draw(m, x, y, height) ==
  LET size == 8 * height
  IN  IF m.frame.I + size > MEMORY_SIZE THEN [m EXCEPT !.panic = TRUE]
      ELSE LET d == draw_sprite(m.screen, x, y, height, m.frame.memory, m.frame.I)
           IN  [m EXCEPT !.screen = d.screen,
                         !.frame = set_vf_flag(m.frame, IF d.state = "Changed" THEN 1 ELSE 0)]

\* A call that saves the address of the instruction after it.
op_call_PushesNext(m, address) ==
  [m EXCEPT !.frame.stack = Append(@, [return_address |-> m.frame.PC + PC_INCREMENT]),
            !.frame.PC = address]

op_call(m, address) ==
  [m EXCEPT !.frame.stack = Append(@, [return_address |-> m.frame.PC]),
            !.frame.PC = address]

\* A return that passes over the empty stack in silence.
op_return_Silent(m) ==
  IF Len(m.frame.stack) = 0 THEN m
  ELSE [m EXCEPT !.frame.PC = m.frame.stack[Len(m.frame.stack)].return_address,
                 !.frame.stack = SubSeq(@, 1, Len(@) - 1)]

op_return(m) ==
  IF Len(m.frame.stack) = 0 THEN [m EXCEPT !.result = "Err"]
  ELSE [m EXCEPT !.frame.PC = m.frame.stack[Len(m.frame.stack)].return_address,
                 !.frame.stack = SubSeq(@, 1, Len(@) - 1)]

\* A BCD whose tens digit is not reduced modulo 10.
op_bcd_TensRaw(m, data) ==
  LET hundreds == data \div 100
      tens == data \div 10
      ones == (data % 100) % 10
      I == m.frame.I
  IN  IF I + 2 >= MEMORY_SIZE THEN [m EXCEPT !.panic = TRUE]
      ELSE [m EXCEPT !.frame.memory =
              Store(@, (I :> hundreds) @@ (I + 1 :> tens) @@ (I + 2 :> ones))]

op_bcd(m, data) ==
  LET hundreds == data \div 100
      tens == (data \div 10) % 10
      ones == (data % 100) % 10
      I == m.frame.I
  IN  IF I + 2 >= MEMORY_SIZE THEN [m EXCEPT !.panic = TRUE]
      ELSE [m EXCEPT !.frame.memory =
              Store(@, (I :> hundreds) @@ (I + 1 :> tens) @@ (I + 2 :> ones))]

op_mem_add_i(m, data) ==
  LET f1 == [m.frame EXCEPT !.I = (@ + data) % U16]
  IN  [m EXCEPT !.frame = set_vf_flag(f1, IF m.frame.I + data >= U16 THEN 1 ELSE 0)]

\* A dump whose loop stops one register short (0 .. offset instead of 0 ..= offset).
op_dump_Exclusive(m, offset) ==
  LET I == m.frame.I
  IN  IF I + offset >= MEMORY_SIZE THEN [m EXCEPT !.panic = TRUE]
      ELSE [m EXCEPT !.frame.memory =
                       Store(@, [a \in I .. I + offset - 1 |-> m.frame.registers[a - I]]),
                     !.frame.I = I + offset + 1]

op_dump(m, offset) ==
  LET I == m.frame.I
  IN  IF I + offset >= MEMORY_SIZE THEN [m EXCEPT !.panic = TRUE]
      ELSE [m EXCEPT !.frame.memory =
                       Store(@, [a \in I .. I + offset |-> m.frame.registers[a - I]]),
                     !.frame.I = I + offset + 1]

op_load(m, offset) ==
  LET I == m.frame.I
  IN  IF I + offset >= MEMORY_SIZE THEN [m EXCEPT !.panic = TRUE]
      ELSE [m EXCEPT !.frame.registers =
                       [r \in DOMAIN @ |->
                          IF r <= offset THEN At(m.frame.memory, I + r) ELSE @[r]],
                     !.frame.I = I + offset + 1]

\* An execute that does not advance past what it does not implement.
NoIncPc_NotImplemented ==
  {"Flow_Call", "Flow_Jump", "Flow_Jump_Offset", "KeyOp_Await", "Raw_Call", "Unknown"}

\* The instructions that set PC themselves (inc_pc = false in Vm::execute).
NoIncPc == {"Flow_Call", "Flow_Jump", "Flow_Jump_Offset", "KeyOp_Await"}

\* The match of Vm::execute, before the trailing PC increment.
execute_match(m, code, pressed_keys, number) ==
  LET frame == m.frame
      reg == frame.registers
      o == code.op
  IN  CASE o = "Disp_Clear" -> op_clear(m)
        [] o = "Disp" -> op_draw(m, reg[code.x], reg[code.y], code.n)
        [] o = "Flow_Call" -> op_call(m, code.nnn)
        [] o = "Flow_Return" -> op_return(m)
        [] o = "Flow_Jump" -> [m EXCEPT !.frame.PC = code.nnn]
        [] o = "Flow_Jump_Offset" -> [m EXCEPT !.frame.PC = reg[0] + code.nnn]
        [] o = "Cond_Eq_Const" ->
             IF reg[code.x] = code.nn THEN [m EXCEPT !.frame = increment_pc(frame)] ELSE m
        [] o = "Cond_Neq_Const" ->
             IF reg[code.x] # code.nn THEN [m EXCEPT !.frame = increment_pc(frame)] ELSE m
        [] o = "Cond_Eq_Reg" ->
             IF reg[code.x] = reg[code.y] THEN [m EXCEPT !.frame = increment_pc(frame)] ELSE m
        [] o = "Cond_Neq_Reg" ->
             IF reg[code.x] # reg[code.y] THEN [m EXCEPT !.frame = increment_pc(frame)] ELSE m
        [] o = "Const_Set_Reg" -> [m EXCEPT !.frame.registers[code.x] = code.nn]
        [] o = "Const_Add_Reg" -> [m EXCEPT !.frame.registers[code.x] = (@ + code.nn) % U8]
        [] o = "Assign" -> [m EXCEPT !.frame.registers[code.x] = reg[code.y]]
        [] o = "BitOp_Or" -> [m EXCEPT !.frame.registers[code.x] = BitOr(@, reg[code.y])]
        [] o = "BitOp_And" -> [m EXCEPT !.frame.registers[code.x] = BitAnd(@, reg[code.y])]
        [] o = "BitOp_Xor" -> [m EXCEPT !.frame.registers[code.x] = BitXor(@, reg[code.y])]
        [] o = "BitOp_Shift_Right" -> op_right_shift(m, code.x, code.x)
        [] o = "BitOp_Shift_Left" -> op_left_shift(m, code.x, code.x)
        [] o = "Math_Add" -> op_math_add(m, code.x, code.y, code.x)
        [] o = "Math_Minus" -> op_math_minus(m, code.x, code.y, code.x)
        [] o = "Math_Minus_Reverse" -> op_math_minus(m, code.y, code.x, code.x)
        [] o = "KeyOp_Await" -> op_await_key(m, code.x, pressed_keys)
        [] o = "KeyOp_Skip_Pressed" -> op_key_pressed(m, reg[code.x], pressed_keys)
        [] o = "KeyOp_Skip_Not_Pressed" -> op_key_not_pressed(m, reg[code.x], pressed_keys)
        [] o = "Rand" -> op_rand(m, code.x, code.nn, number)
        [] o = "BCD" -> op_bcd(m, reg[code.x])
        [] o = "Timer_Delay_Get" ->
             [m EXCEPT !.frame.registers[code.x] = get_scaled(frame.delay_timer)]
        [] o = "Timer_Delay_Set" ->
             [m EXCEPT !.frame.delay_timer = set_scaled(reg[code.x])]
        [] o = "Sound_Set" -> op_sound_set(m, reg[code.x])
        [] o = "MEM_Set_I" -> [m EXCEPT !.frame.I = code.nnn]
        [] o = "MEM_Add_I" -> op_mem_add_i(m, reg[code.x])
        [] o = "MEM_Reg_Dump" -> op_dump(m, code.x)
        [] o = "MEM_Reg_Load" -> op_load(m, code.x)
        [] o = "MEM_Set_Sprite_I" ->
             [m EXCEPT !.frame.I = (reg[code.x] * FONT_SYMBOL_SIZE) % U16]
        [] OTHER -> m

execute(m, code, pressed_keys, number) ==
  LET m1 == execute_match(m, code, pressed_keys, number)
  IN  IF m1.panic \/ code.op \in NoIncPc THEN m1
      ELSE [m1 EXCEPT !.frame = increment_pc(m1.frame)]

\* The timer countdown of Vm::tick on the cloned frame: each timer that is
\* non-zero loses timer_delta (saturating); the Audio flag is cleared when the
\* sound timer reaches zero in this step.
TimerDelta(duration, delta) == IF duration = 0 THEN delta ELSE duration

\* The Audio flag cleared as soon as the sound timer's scaled value is zero.
CountDown_Scaled(m, timer_delta) ==
  LET dt == IF Timer_positive(m.frame.delay_timer)
            THEN SaturatingSub(m.frame.delay_timer, timer_delta) ELSE m.frame.delay_timer
      st == IF Timer_positive(m.frame.sound_timer)
            THEN SaturatingSub(m.frame.sound_timer, timer_delta) ELSE m.frame.sound_timer
  IN  [m EXCEPT !.frame.delay_timer = dt,
                !.frame.sound_timer = st,
                !.playing = IF Timer_positive(m.frame.sound_timer) /\ get_scaled(st) = 0 THEN FALSE ELSE @]

CountDown(m, timer_delta) ==
  LET dt == IF Timer_positive(m.frame.delay_timer)
            THEN SaturatingSub(m.frame.delay_timer, timer_delta) ELSE m.frame.delay_timer
      st == IF Timer_positive(m.frame.sound_timer)
            THEN SaturatingSub(m.frame.sound_timer, timer_delta) ELSE m.frame.sound_timer
  IN  [m EXCEPT !.frame.delay_timer = dt,
                !.frame.sound_timer = st,
                !.playing = IF Timer_positive(m.frame.sound_timer) /\ st = Timer_new THEN FALSE ELSE @]

\* One cycle on a clone of the current frame (the body of "if execute_cycle"
\* in Vm::tick up to, not including, update_stack).
Cycle(frame, screen, playing, duration, delta, pressed_keys, number) ==
  LET m0 == [frame |-> frame, screen |-> screen, playing |-> playing,
             result |-> "Ok", panic |-> FALSE]
      m1 == CountDown(m0, TimerDelta(duration, delta))
  IN  IF ~fetch_in_range(m1.frame) THEN [m1 EXCEPT !.panic = TRUE]
      ELSE execute(m1, decode(fetch(m1.frame)), pressed_keys, number)

(***************************************************************************)
(* Debugger and history (Vm::process_debugger, Vm::update_stack).          *)
(***************************************************************************)
Commands == {"Next", "Previous", "PrintRegisters", "PrintStack", "PrintTimers"}

\* Variants of process_debugger_command with a guard lost: Next advancing past the end,
\* Previous stepping below frame 0, Previous at frame 0 resuming execution.
process_debugger_command_NextUnguarded(h, command) ==
  CASE command = "Next" -> [h EXCEPT !.frame_pointer = @ + 1]
    [] command = "Previous" ->
         IF h.frame_pointer > 0 THEN [h EXCEPT !.frame_pointer = @ - 1] ELSE h
    [] OTHER -> h

process_debugger_command_PreviousUnguarded(h, command) ==
  CASE command = "Next" ->
         IF h.frame_pointer < Len(h.frames) - 1
         THEN [h EXCEPT !.frame_pointer = @ + 1]
         ELSE [h EXCEPT !.result = TRUE]
    [] command = "Previous" -> [h EXCEPT !.frame_pointer = @ - 1]
    [] OTHER -> h

process_debugger_command_PreviousResumes(h, command) ==
  CASE command = "Next" ->
         IF h.frame_pointer < Len(h.frames) - 1
         THEN [h EXCEPT !.frame_pointer = @ + 1]
         ELSE [h EXCEPT !.result = TRUE]
    [] command = "Previous" ->
         IF h.frame_pointer > 0
         THEN [h EXCEPT !.frame_pointer = @ - 1]
         ELSE [h EXCEPT !.result = TRUE]
    [] OTHER -> h

\* One iteration of the drain loop of process_debugger on the state
\* h = [frames, frame_pointer, result].
process_debugger_command(h, command) ==
  CASE command = "Next" ->
         IF h.frame_pointer < Len(h.frames) - 1
         THEN [h EXCEPT !.frame_pointer = @ + 1]
         ELSE [h EXCEPT !.result = TRUE]
    [] command = "Previous" ->
         IF h.frame_pointer > 0
         THEN [h EXCEPT !.frame_pointer = @ - 1]
         ELSE h
    [] OTHER -> h

\* get_current_frame: frames is 0-based in the source, 1-based here.
get_current_frame(fs, fp) == fs[fp + 1]

\* Variants of update_stack: the cursor left where it was; only the next slot
\* written when the cursor is before the last frame; the frame always
\* appended, whatever the mode and the cursor.
update_stack_NoAdvance(h, frame, screen, en) ==
  IF en
  THEN LET f == [frame EXCEPT !.screen = screen]
       IN  IF h.frame_pointer + 1 = Len(h.frames)
           THEN [h EXCEPT !.frames = Append(@, f)]
           ELSE [h EXCEPT !.frames = [@ EXCEPT ![h.frame_pointer + 1] = f,
                                               ![h.frame_pointer + 2] = f]]
  ELSE [h EXCEPT !.frames = [@ EXCEPT ![h.frame_pointer + 1] = frame]]

update_stack_SingleSlot(h, frame, screen, en) ==
  IF en
  THEN LET f == [frame EXCEPT !.screen = screen]
       IN  IF h.frame_pointer + 1 = Len(h.frames)
           THEN [h EXCEPT !.frames = Append(@, f), !.frame_pointer = @ + 1]
           ELSE [h EXCEPT !.frames = [@ EXCEPT ![h.frame_pointer + 2] = f],
                          !.frame_pointer = @ + 1]
  ELSE [h EXCEPT !.frames = [@ EXCEPT ![h.frame_pointer + 1] = frame]]

update_stack_AppendAlways(h, frame, screen, en) ==
  [h EXCEPT !.frames = Append(@, [frame EXCEPT !.screen = screen]),
            !.frame_pointer = @ + 1]

\* update_stack: the frame produced by a cycle enters the history.
update_stack(h, frame, screen, en) ==
  IF en
  THEN LET f == [frame EXCEPT !.screen = screen]
       IN  IF h.frame_pointer + 1 = Len(h.frames)
           THEN [h EXCEPT !.frames = Append(@, f), !.frame_pointer = @ + 1]
           ELSE [h EXCEPT !.frames = [@ EXCEPT ![h.frame_pointer + 1] = f,
                                               ![h.frame_pointer + 2] = f],
                          !.frame_pointer = @ + 1]
  ELSE [h EXCEPT !.frames = [@ EXCEPT ![h.frame_pointer + 1] = frame]]

\* The gate of Vm::tick: does this call cross the threshold?
Crosses_Inclusive(timer, duration) == timer >= duration

Crosses(timer, duration) == timer > duration

\* The gate of the cycle: commands are drained before a cycle only when the
\* debugger is enabled and the break flag is set; otherwise the cycle runs.
BreakMode_IgnoresFlag(en, break) == en

BreakMode(en, break) == en /\ break

(***************************************************************************)
(* Bounds and inputs of the model.                                         *)
(***************************************************************************)
MaxCycles == 2

MaxQueue == 1

\* D005 00E0 00EE: draw the glyph at I = 0, clear, return on an empty stack.
RomDraw == << 208, 5, 0, 224, 0, 238 >>

\* F00A F018 1200: await a key into V0, set the sound timer from V0, loop.
RomKeys == << 240, 10, 240, 24, 18, 0 >>

Roms == {RomDraw, RomKeys}

Hzs == {0, 60}

Deltas == {0, 20000000}

KeyStates == {<< >>, << 2 >>}

RandomBytes == {0, 255}

(***************************************************************************)
(* State.                                                                  *)
(***************************************************************************)
VARIABLES
  frames,            \* Vm.frames
  frame_pointer,     \* Vm.frame_pointer
  tick_timer,        \* Vm.tick_timer
  tick_duration,     \* Vm.tick_duration
  enabled,           \* Vm.debugger.enabled
  enable_break,      \* the shared break flag
  consumer,          \* the debugger command channel, oldest first
  display,           \* VmDisplay.screen
  playing,           \* Audio.playing
  pressed_keys,      \* GGEZInput.pressed_keys
  pc,                \* where the machine thread is: loop, drain, cycle, panicked
  delta,             \* the argument of the tick call in progress
  result,            \* the local "result" of process_debugger
  tick_result,       \* what the last finished tick call returned
  cycles,            \* history: the number of cycles executed so far
  stepped,           \* history: a Next or Previous command has been processed
  drained,           \* history: what the tick in progress has drained so far
  at_call,           \* history: the machine as the tick in progress found it
  alive,             \* Runner.alive, the flag the thread's loop tests
  joined,            \* Drop for Runner: handle.join() has returned
  holder,            \* who holds the Display, Audio and Input mutexes
  todo,              \* the writes the Display operation in progress has yet to do
  snapshot,          \* the last framebuffer snapshot the environment read
  settled,           \* history: the screen as the last finished Display operation left it
  env_at,            \* the critical section the environment thread is in
  rom_bytes,         \* the ROM that Runner::new read
  new_result,        \* what Vm::new returned: pending, Ok, or the error's text
  nexts,             \* history: the Next commands the drains have processed, where counted
  unbroken           \* history: the waiting commands sent with the break flag clear and
                     \* clear ever since, where counted

vars == << frames, frame_pointer, tick_timer, tick_duration, enabled, enable_break,
           consumer, display, playing, pressed_keys, pc, delta, result, tick_result,
           cycles, stepped, drained, at_call, alive, joined, holder, todo, snapshot,
           settled, env_at, rom_bytes, new_result, nexts, unbroken >>

loader == << rom_bytes, new_result, nexts, unbroken >>

\* The histories that count are kept only where a specification starts the count.
Uncounted == 0 - 1

teardown == << alive, joined >>

locking == << holder, todo, snapshot, settled, env_at >>

Locks == {"display", "audio", "input"}

\* No mutex held, nothing read: Runner::new.
NoLocking ==
  /\ holder = [l \in Locks |-> "none"]
  /\ todo = << >>
  /\ snapshot = EmptyScreen
  /\ settled = EmptyScreen
  /\ env_at = "idle"

config == << tick_duration, enabled >>

Snapshot == [broken |-> BreakMode(enabled, enable_break),
             frame_pointer |-> frame_pointer, len |-> Len(frames)]

\* What a drain has seen: whether it received any command, and whether some
\* Next command was received while the cursor was on the last frame.
NothingDrained == [any |-> FALSE, next_at_last |-> FALSE]

\* Outside a call of tick its argument, locals and history hold nothing.
NoCall == [broken |-> FALSE, frame_pointer |-> 0, len |-> 0]

\* The test of the thread's loop, "while thread_alive.load()", is taken
\* together with the end of the call of tick before it (the first one with
\* the spawn): in between the thread touches nothing the other thread sees.
\* A loop that never looks at the flag.
LoopOrExit_Forever == "loop"

LoopOrExit == IF alive THEN "loop" ELSE "exited"

\* Vm::new and Runner::new for an accepted ROM.
Init ==
  /\ rom_bytes \in Roms
  /\ new_result = "Ok"
  /\ nexts = Uncounted
  /\ unbroken = Uncounted
  /\ frames = << InitialFrame(rom_bytes) >>
  /\ frame_pointer = 0
  /\ tick_timer = 0
  /\ \E hz \in Hzs : tick_duration = TickDuration(hz)
  /\ enabled \in BOOLEAN
  /\ enable_break = FALSE
  /\ consumer = << >>
  /\ display = EmptyScreen
  /\ playing = FALSE
  /\ pressed_keys = << >>
  /\ pc = "loop"
  /\ delta = 0
  /\ result = FALSE
  /\ tick_result = "Ok"
  /\ cycles = 0
  /\ stepped = FALSE
  /\ drained = NothingDrained
  /\ at_call = NoCall
  /\ alive = TRUE
  /\ joined = FALSE
  /\ NoLocking

(***************************************************************************)
(* The environment thread (Runner's public surface, GGEZInput).            *)
(***************************************************************************)
\* Runner::send_debugger_command
SendCommandWithin(limit, command) ==
  /\ alive
  /\ Len(consumer) < limit
  /\ pc # "panicked"
  /\ consumer' = Append(consumer, command)
  /\ unbroken' = IF unbroken # Uncounted /\ ~enable_break THEN unbroken + 1 ELSE unbroken
  /\ UNCHANGED << rom_bytes, new_result, nexts, teardown, locking, frames, frame_pointer, tick_timer, config, enable_break, display,
                  playing, pressed_keys, pc, delta, result, tick_result, cycles,
                  stepped, drained, at_call >>

SendCommand(command) == SendCommandWithin(MaxQueue, command)

\* Runner::toggle_debugger_break
ToggleBreak ==
  /\ alive
  /\ enable_break' = ~enable_break
  /\ unbroken' = IF unbroken # Uncounted THEN 0 ELSE unbroken
  /\ UNCHANGED << rom_bytes, new_result, nexts, teardown, locking, frames, frame_pointer, tick_timer, config, consumer, display,
                  playing, pressed_keys, pc, delta, result, tick_result, cycles,
                  stepped, drained, at_call >>

\* GGEZInput::update_keys
UpdateKeys(keys) ==
  /\ keys # pressed_keys
  /\ pressed_keys' = keys
  /\ UNCHANGED << loader, teardown, locking, frames, frame_pointer, tick_timer, config, enable_break, consumer,
                  display, playing, pc, delta, result, tick_result, cycles,
                  stepped, drained, at_call >>

(***************************************************************************)
(* The machine thread: Vm::tick, called in a loop by the Runner.  A call   *)
(* is split where the other thread can be observed: at each try_recv of    *)
(* the drain loop.  The break flag is read once, when the gate is entered; *)
(* the cycle itself is one step, since the environment only reads Display  *)
(* and Audio and the cycle reads Input at most once.  MaxCycles cuts the   *)
(* exploration off: no further cycle is executed once it is reached,       *)
(* unless the Runner is being torn down: the call in progress then runs to *)
(* its end.                                                                *)
(***************************************************************************)
\* A call that does not cross the threshold: it only accumulates.
TickAccumulate(d) ==
  /\ pc = "loop"
  /\ ~Crosses(tick_timer, tick_duration)
  /\ tick_timer' = tick_timer + d
  /\ tick_result' = "Ok"
  /\ pc' = LoopOrExit
  /\ UNCHANGED << loader, teardown, locking, frames, frame_pointer, config, enable_break, consumer, display,
                  playing, pressed_keys, delta, result, cycles, stepped, drained,
                  at_call >>

\* A call that crosses the threshold, up to the gate: the accumulator is
\* reset and process_debugger reads the break flag.
TickCross(d) ==
  /\ pc = "loop"
  /\ Crosses(tick_timer, tick_duration)
  /\ tick_timer' = 0
  /\ delta' = d
  /\ at_call' = Snapshot
  /\ drained' = NothingDrained
  /\ result' = FALSE
  /\ pc' = IF BreakMode(enabled, enable_break) THEN "drain" ELSE "cycle"
  /\ UNCHANGED << loader, teardown, locking, frames, frame_pointer, config, enable_break, consumer, display,
                  playing, pressed_keys, tick_result, cycles, stepped >>

\* A channel handing out the newest command first.
try_recv_Newest(queue) ==
  [command |-> queue[Len(queue)], rest |-> SubSeq(queue, 1, Len(queue) - 1)]

\* Receiver::try_recv on a channel that is not empty: the oldest command,
\* taken off the channel.
try_recv(queue) == [command |-> Head(queue), rest |-> Tail(queue)]

\* process_debugger: try_recv returned a command.
Recv ==
  /\ pc = "drain"
  /\ consumer # << >>
  /\ LET command == try_recv(consumer).command
         h == process_debugger_command([frames |-> frames, frame_pointer |-> frame_pointer,
                              result |-> result], command)
     IN  /\ frames' = h.frames
         /\ frame_pointer' = h.frame_pointer
         /\ result' = h.result
         /\ stepped' = (stepped \/ command \in {"Next", "Previous"})
         /\ drained' = [any |-> TRUE,
                        next_at_last |-> \/ drained.next_at_last
                                         \/ /\ command = "Next"
                                            /\ frame_pointer = Len(frames) - 1]
  /\ consumer' = try_recv(consumer).rest
  /\ nexts' = IF nexts # Uncounted /\ try_recv(consumer).command = "Next" THEN nexts + 1 ELSE nexts
  /\ unbroken' = IF unbroken > Len(try_recv(consumer).rest) THEN Len(try_recv(consumer).rest) ELSE unbroken
  /\ UNCHANGED << rom_bytes, new_result, teardown, locking, tick_timer, config, enable_break,
                  display, playing, pressed_keys, pc, delta, tick_result, cycles, at_call >>

\* A drain that gives up with commands still waiting.
DrainEnd_Early ==
  /\ pc = "drain"
  /\ display' = set_screen(display, get_current_frame(frames, frame_pointer).screen)
  /\ pc' = IF result THEN "cycle" ELSE LoopOrExit
  /\ UNCHANGED << loader, teardown, locking, frames, frame_pointer, tick_timer, config, enable_break, consumer,
                  playing, pressed_keys, cycles, stepped, tick_result, delta, result, drained, at_call >>

\* process_debugger: try_recv found the channel empty; the Display is set to
\* the current frame's screen and the gate answers "result".
DrainEnd ==
  /\ pc = "drain"
  /\ consumer = << >>
  /\ display' = set_screen(display, get_current_frame(frames, frame_pointer).screen)
  /\ IF result
     THEN /\ pc' = "cycle"
          /\ UNCHANGED << tick_result, delta, result, drained, at_call >>
     ELSE /\ pc' = LoopOrExit
          /\ tick_result' = "Ok"
          /\ delta' = 0
          /\ result' = FALSE
          /\ drained' = NothingDrained
          /\ at_call' = NoCall
  /\ UNCHANGED << loader, teardown, locking, frames, frame_pointer, tick_timer, config, enable_break, consumer,
                  playing, pressed_keys, cycles, stepped >>

\* The executed cycle: clone, count down, fetch, decode, execute, update_stack.
\* The cycle of a tick that was let through the gate: it runs when "allowed"
\* and leaves the count of cycles at "counted".
ExecuteCycleCounting(allowed, counted, number) ==
  /\ pc = "cycle"
  /\ allowed
  /\ LET m == Cycle(get_current_frame(frames, frame_pointer), display, playing,
                    tick_duration, delta, pressed_keys, number)
         h == update_stack([frames |-> frames, frame_pointer |-> frame_pointer],
                          m.frame, m.screen, enabled)
     IN  /\ display' = m.screen
         /\ playing' = m.playing
         /\ IF m.panic
            THEN /\ pc' = "panicked"
                 /\ UNCHANGED << frames, frame_pointer, tick_result, cycles >>
            ELSE /\ pc' = LoopOrExit
                 /\ frames' = h.frames
                 /\ frame_pointer' = h.frame_pointer
                 /\ tick_result' = m.result
                 /\ cycles' = counted
  /\ delta' = 0
  /\ result' = FALSE
  /\ drained' = NothingDrained
  /\ at_call' = NoCall
  /\ UNCHANGED << loader, teardown, locking, tick_timer, config, enable_break, consumer, pressed_keys,
                  stepped >>

\* The cycle, counted, and no longer run once "limit" cycles have been, unless
\* the Runner is being torn down.
ExecuteCycleWithin(limit, number) ==
  ExecuteCycleCounting(cycles < limit \/ ~alive, cycles + 1, number)

ExecuteCycle(number) == ExecuteCycleWithin(MaxCycles, number)

Next ==
  \/ \E command \in Commands : SendCommand(command)
  \/ ToggleBreak
  \/ \E keys \in KeyStates : UpdateKeys(keys)
  \/ \E d \in Deltas : TickAccumulate(d)
  \/ \E d \in Deltas : TickCross(d)
  \/ Recv
  \/ DrainEnd
  \/ \E number \in RandomBytes : ExecuteCycle(number)

Spec == Init /\ [][Next]_vars

(***************************************************************************)
(* Properties of the history, the debugger and the tick scheduler.         *)
(***************************************************************************)
\* The steps of the machine thread, told apart by what they change.
RecvStep == pc = "drain" /\ consumer # << >> /\ consumer' = Tail(consumer)

DrainEndStep == pc = "drain" /\ pc' # "drain"

CycleStep == cycles' = cycles + 1

\* The frames an executed cycle may produce from the current state: the
\* cycle's frame, carrying the Display's screen when the debugger is enabled.
Produced ==
  { LET m == Cycle(get_current_frame(frames, frame_pointer), display, playing,
                   tick_duration, delta, pressed_keys, number)
    IN  IF enabled THEN [m.frame EXCEPT !.screen = m.screen] ELSE m.frame :
    number \in RandomBytes }

\* C1: in every reachable state the history is not empty and the cursor
\* points into it: 0 <= frame_pointer <= Len(frames) - 1.
C1_CursorInHistory ==
  /\ Len(frames) >= 1
  /\ frame_pointer >= 0
  /\ frame_pointer <= Len(frames) - 1

C1_Witness ==
  /\ stepped
  /\ cycles = MaxCycles
  /\ Len(frames) >= 3
  /\ frame_pointer = 0

\* C2: with debugging enabled, as long as no Next or Previous command has
\* been processed, after N executed cycles the cursor is N and the history
\* holds N + 1 frames.
C2_HistoryGrowsWithCycles ==
  (enabled /\ ~stepped) => (frame_pointer = cycles /\ Len(frames) = cycles + 1)

C2_Witness == enabled /\ ~stepped /\ cycles = MaxCycles /\ Len(frames) = MaxCycles + 1

\* C3: with debugging disabled the history holds exactly one frame and the
\* cursor is 0, whatever is sent or toggled; an executed cycle overwrites
\* that single frame with the frame it produced.
C3_DisabledSingleFrame ==
  /\ ~enabled => (Len(frames) = 1 /\ frame_pointer = 0)
  /\ [][~enabled =>
          /\ Len(frames') = 1
          /\ frame_pointer' = 0
          /\ CycleStep => frames'[1] \in Produced]_vars

C3_Witness ==
  /\ ~enabled
  /\ cycles = MaxCycles
  /\ enable_break
  /\ consumer # << >>
  /\ frames[1].PC # PC_START

\* C4: in a tick that found the debugger enabled and the break flag set, a
\* cycle executes only if some Next command drained by this tick found the
\* cursor on the last frame; the drain changes no stored frame; and a drain
\* that received no command ends the tick without a cycle, the cursor and
\* the history length being what they were when the tick began.
C4_BrokenGate ==
  [][/\ (CycleStep /\ at_call.broken) => drained.next_at_last
     /\ (pc' = "cycle" /\ at_call'.broken) => drained'.next_at_last
     /\ pc = "drain" => frames' = frames
     /\ (DrainEndStep /\ ~drained.any) =>
          /\ pc' = "loop"
          /\ cycles' = cycles
          /\ frame_pointer' = at_call.frame_pointer
          /\ Len(frames') = at_call.len]_vars

C4_Witness ==
  /\ at_call.broken
  /\ pc = "cycle"
  /\ drained.next_at_last
  /\ cycles >= 1

\* C5: a Next command received while the cursor is before the last frame
\* advances the cursor by one and changes no frame; received on the last
\* frame it leaves the cursor in place and sets the signal that makes this
\* tick execute a cycle (the signal stays set until the drain ends, and a
\* drain ending with it set goes on to the cycle).
C5_Next ==
  [][/\ (RecvStep /\ Head(consumer) = "Next") =>
          /\ frames' = frames
          /\ IF frame_pointer < Len(frames) - 1
             THEN frame_pointer' = frame_pointer + 1 /\ result' = result
             ELSE frame_pointer' = frame_pointer /\ result'
     /\ (pc = "drain" /\ pc' = "drain" /\ result) => result'
     /\ (DrainEndStep /\ result) => pc' = "cycle"]_vars

C5_Witness ==
  /\ pc = "drain"
  /\ stepped
  /\ drained.next_at_last
  /\ result
  /\ Len(frames) >= 2
  /\ frame_pointer = Len(frames) - 1
  /\ at_call.frame_pointer < frame_pointer

\* C6: a Previous command received with the cursor at 0 changes nothing;
\* received with the cursor above 0 it moves the cursor back by one and
\* changes neither the stored frames nor their number.
C6_Previous ==
  [][(RecvStep /\ Head(consumer) = "Previous") =>
        /\ frames' = frames
        /\ result' = result
        /\ IF frame_pointer = 0
           THEN frame_pointer' = 0
           ELSE frame_pointer' = frame_pointer - 1]_vars

C6_Witness ==
  /\ pc = "drain"
  /\ stepped
  /\ drained.any
  /\ ~drained.next_at_last
  /\ frame_pointer = 0
  /\ at_call.frame_pointer = 1

C8_DisplayShowsCursorFrame ==
  [][DrainEndStep => display' = get_current_frame(frames', frame_pointer').screen]_vars

\* The drain has ended on an earlier frame whose screen is not the last
\* frame's, and the Display shows it.
C8_Witness ==
  /\ at_call.broken
  /\ pc = "cycle"
  /\ frame_pointer < Len(frames) - 1
  /\ get_current_frame(frames, frame_pointer).screen # frames[Len(frames)].screen
  /\ display = get_current_frame(frames, frame_pointer).screen

\* C9: a tick that crosses the threshold with the debugger disabled, or
\* enabled with the break flag clear, removes no command and goes on to
\* execute one cycle from the frame at the cursor, wherever the cursor is and
\* whatever the queue holds.
C9_RunningExecutes ==
  [][/\ (pc = "loop" /\ tick_timer > tick_duration /\ tick_timer' # tick_timer
           /\ ~(enabled /\ enable_break)) =>
          /\ pc' = "cycle"
          /\ UNCHANGED << frames, frame_pointer, consumer, cycles >>
     /\ (pc = "cycle" /\ ~at_call.broken) =>
          /\ UNCHANGED consumer \/ \E c \in Commands : consumer' = Append(consumer, c)
          /\ pc' # "cycle" =>
               \/ pc' = "panicked" /\ UNCHANGED << frames, frame_pointer, cycles >>
               \/ /\ pc' = "loop"
                  /\ cycles' = cycles + 1
                  /\ frames'[frame_pointer' + 1] \in Produced]_vars

\* A running tick is about to execute with commands pending and the cursor
\* before the last frame.
C9_Witness ==
  /\ pc = "cycle"
  /\ enabled
  /\ ~at_call.broken
  /\ consumer # << >>
  /\ frame_pointer < Len(frames) - 1

\* C10: a call of tick goes past the threshold only if the accumulator
\* strictly exceeds tick_duration, and then resets the accumulator to zero
\* and executes at most one cycle before returning; a call that does not
\* cross adds its delta to the accumulator and changes no frame, cursor,
\* Display or Audio state.
C10_TickGate ==
  [][/\ (pc = "loop" /\ pc' # "loop") =>
          (tick_timer > tick_duration /\ tick_timer' = 0)
     /\ pc' \in {"drain", "cycle"} => tick_timer' = 0
     /\ cycles' # cycles => (cycles' = cycles + 1 /\ pc = "cycle" /\ pc' = "loop")
     /\ (pc = "loop" /\ tick_timer' # tick_timer /\ tick_timer <= tick_duration) =>
          /\ \E d \in Deltas : tick_timer' = tick_timer + d
          /\ pc' = "loop"
          /\ UNCHANGED << frames, frame_pointer, display, playing, cycles, consumer >>
     /\ (pc = "loop" /\ tick_timer' # tick_timer /\ tick_timer > tick_duration) =>
          tick_timer' = 0 /\ pc' # "loop"]_vars

\* A cycle has executed and the accumulator has gone past the threshold again.
C10_Witness ==
  /\ cycles >= 1
  /\ pc = "loop"
  /\ tick_duration > 0
  /\ tick_timer > tick_duration

(***************************************************************************)
(* The uncapped mode, the timers and the Audio flag.  The timers need a    *)
(* longer run than the debugger: a program that draws a byte, sets the     *)
(* sound timer and the delay timer from it and then spins.                 *)
(***************************************************************************)
MaxTimerCycles == 4

\* C001 F018 F015 1206: V0 = random & 1, sound = V0, delay = V0, spin.
RomTimers == << 192, 1, 240, 24, 240, 21, 18, 6 >>

TimerHzs == {0, 30, 60, 120}

InitTimers ==
  /\ rom_bytes = RomTimers
  /\ new_result = "Ok"
  /\ nexts = Uncounted
  /\ unbroken = Uncounted
  /\ frames = << InitialFrame(rom_bytes) >>
  /\ frame_pointer = 0
  /\ tick_timer = 0
  /\ \E hz \in TimerHzs : tick_duration = TickDuration(hz)
  /\ enabled \in BOOLEAN
  /\ enable_break = FALSE
  /\ consumer = << >>
  /\ display = EmptyScreen
  /\ playing = FALSE
  /\ pressed_keys = << >>
  /\ pc = "loop"
  /\ delta = 0
  /\ result = FALSE
  /\ tick_result = "Ok"
  /\ cycles = 0
  /\ stepped = FALSE
  /\ drained = NothingDrained
  /\ at_call = NoCall
  /\ alive = TRUE
  /\ joined = FALSE
  /\ NoLocking

ExecuteTimerCycle(number) == ExecuteCycleWithin(MaxTimerCycles, number)

\* The environment toggles the break flag and the keys and steps forward
\* with Next; it never steps back, so the cursor stays on the last frame.
NextTimers ==
  \/ SendCommand("Next")
  \/ ToggleBreak
  \/ \E keys \in KeyStates : UpdateKeys(keys)
  \/ \E d \in Deltas : TickAccumulate(d)
  \/ \E d \in Deltas : TickCross(d)
  \/ Recv
  \/ DrainEnd
  \/ \E number \in RandomBytes : ExecuteTimerCycle(number)

SpecTimers == InitTimers /\ [][NextTimers]_vars

\* A call of tick seen from the loop: it moves the accumulator or enters the
\* gate.
TickStep == pc = "loop" /\ (tick_timer' # tick_timer \/ pc' # "loop")

\* C11: with tick_duration = 0 and the debugger gate allowing execution (the
\* debugger disabled, or the break flag clear), every call of tick executes
\* one cycle.
C11_UncappedEveryTick ==
  [][(TickStep /\ tick_duration = 0 /\ ~(enabled /\ enable_break)) => pc' = "cycle"]_vars

\* The frame at the cursor before and after a step, and the instruction a
\* cycle executed from the frame at the cursor finds at PC.
CurrentFrame == get_current_frame(frames, frame_pointer)

CurrentFrameAfter == get_current_frame(frames', frame_pointer')

CurrentOp == decode(fetch(CurrentFrame)).op

\* C12: an executed cycle takes tick_duration (the call's delta when
\* tick_duration = 0) off each timer, stopping at zero, unless the cycle's
\* instruction sets that timer, which then holds the register's value in
\* scaled units; so a timer is never negative and grows only by its set
\* instruction; a step that executes no cycle changes no frame, so no timer.
C12_TimersCountDown ==
  [][LET timer_delta == IF tick_duration = 0 THEN delta ELSE tick_duration
         taken == [scaled |-> timer_delta \div TIMER_DURATION_NANO,
                   nanos |-> timer_delta % TIMER_DURATION_NANO]
         counted(t) == IF Timer_less(taken, t) THEN Timer_minus(t, taken) ELSE Timer_new
         set(x) == [scaled |-> CurrentFrame.registers[x], nanos |-> 0]
         x == (fetch(CurrentFrame) \div 256) % 16
     IN  /\ CycleStep =>
               /\ ~Timer_less(CurrentFrameAfter.delay_timer, Timer_new)
               /\ ~Timer_less(CurrentFrameAfter.sound_timer, Timer_new)
               /\ IF CurrentOp = "Timer_Delay_Set"
                  THEN CurrentFrameAfter.delay_timer = set(x)
                  ELSE CurrentFrameAfter.delay_timer = counted(CurrentFrame.delay_timer)
               /\ IF CurrentOp = "Sound_Set"
                  THEN CurrentFrameAfter.sound_timer = set(x)
                  ELSE CurrentFrameAfter.sound_timer = counted(CurrentFrame.sound_timer)
               /\ Timer_less(CurrentFrame.delay_timer, CurrentFrameAfter.delay_timer)
                    => CurrentOp = "Timer_Delay_Set"
               /\ Timer_less(CurrentFrame.sound_timer, CurrentFrameAfter.sound_timer)
                    => CurrentOp = "Sound_Set"
         /\ ~CycleStep => frames' = frames]_vars

\* Both timers were set to one scaled unit; the sound timer has run out and
\* the delay timer is part of the way down.
C12_Witness ==
  /\ tick_duration > 0
  /\ CurrentFrame.registers[0] = 1
  /\ CurrentFrame.sound_timer = Timer_new
  /\ Timer_positive(CurrentFrame.delay_timer)
  /\ Timer_less(CurrentFrame.delay_timer, Timer_of(TIMER_DURATION_NANO))

\* C13 as stated: a cycle that executes set-sound-timer leaves the Audio flag
\* set, and a cycle whose countdown takes the sound timer's scaled value from
\* above zero to zero leaves it clear.
C13_ClearedAtScaledZero ==
  [][CycleStep =>
       /\ CurrentOp = "Sound_Set" => playing'
       /\ ( /\ CurrentOp # "Sound_Set"
            /\ get_scaled(CurrentFrame.sound_timer) > 0
            /\ get_scaled(CurrentFrameAfter.sound_timer) = 0 ) => ~playing']_vars

\* C13, amended: a cycle that executes set-sound-timer leaves the Audio flag
\* set; any other cycle clears the flag if its countdown takes the sound
\* timer's raw value from above zero to zero, and leaves the flag as it was
\* if not; a step that executes no cycle leaves the flag as it was.
C13_ClearedAtRawZero ==
  [][/\ CycleStep =>
          IF CurrentOp = "Sound_Set" THEN playing'
          ELSE IF Timer_positive(CurrentFrame.sound_timer) /\ CurrentFrameAfter.sound_timer = Timer_new
               THEN ~playing'
               ELSE playing' = playing
     /\ ~CycleStep => playing' = playing]_vars

\* At 120 cycles per second the sound timer, set to one scaled unit, has run
\* out two cycles later and the flag is clear.
C13_Witness ==
  /\ tick_duration > 0
  /\ tick_duration < TIMER_DURATION_NANO
  /\ CurrentFrame.registers[0] = 1
  /\ CurrentFrame.PC > PC_START + 2
  /\ CurrentFrame.sound_timer = Timer_new
  /\ ~playing

(***************************************************************************)
(* Teardown (Drop for Runner).  Dropping the Runner ends the environment's *)
(* use of it: no command is sent and no flag toggled afterwards (the       *)
(* guards of SendCommand and ToggleBreak).                                 *)
(***************************************************************************)
MaxTeardownCycles == 1

\* self.alive.store(false, Ordering::SeqCst)
Drop ==
  /\ alive
  /\ alive' = FALSE
  /\ UNCHANGED << loader, locking, joined, frames, frame_pointer, tick_timer, config, enable_break,
                  consumer, display, playing, pressed_keys, pc, delta, result,
                  tick_result, cycles, stepped, drained, at_call >>

\* handle.join() returns once the thread has left its loop.
Join ==
  /\ ~alive
  /\ ~joined
  /\ pc = "exited"
  /\ joined' = TRUE
  /\ UNCHANGED << loader, locking, alive, frames, frame_pointer, tick_timer, config, enable_break,
                  consumer, display, playing, pressed_keys, pc, delta, result,
                  tick_result, cycles, stepped, drained, at_call >>

ExecuteTeardownCycle(number) == ExecuteCycleWithin(MaxTeardownCycles, number)

\* The steps of the machine thread up to the cycle.
TickOrDrainStep ==
  \/ \E d \in Deltas : TickAccumulate(d)
  \/ \E d \in Deltas : TickCross(d)
  \/ Recv
  \/ DrainEnd

NextTeardown ==
  \/ \E command \in Commands : SendCommand(command)
  \/ ToggleBreak
  \/ \E keys \in KeyStates : UpdateKeys(keys)
  \/ TickOrDrainStep
  \/ \E number \in RandomBytes : ExecuteTeardownCycle(number)
  \/ Drop
  \/ Join

\* Teardown is followed on one program at the original speed.
InitTeardown ==
  /\ Init
  /\ frames = << InitialFrame(RomKeys) >>
  /\ tick_duration = TickDuration(VM_ORIGINAL_HZ)

\* When ExecuteTeardownCycle can be taken.
CycleEnabled == pc = "cycle" /\ (cycles < MaxTeardownCycles \/ ~alive)

\* The machine thread is scheduled as long as it can take a step, and a
\* join that can return does.  The fairness of the cycle is written through
\* its enabling condition: the cycle always leaves the stage "cycle".
SpecTeardown ==
  /\ InitTeardown /\ [][NextTeardown]_vars
  /\ WF_vars(TickOrDrainStep)
  /\ WF_vars(Join)
  /\ []<>~CycleEnabled

\* C14: once the alive flag is cleared the thread leaves its loop and the
\* join returns; with the flag clear the thread never comes back to the head
\* of the loop, so only the call of tick it was in (or had been let into) runs
\* to its end, and the thread, once out, stays out; after the join has
\* returned the thread is out of the loop and no cycle executes: frames,
\* cursor, Display and Audio stay as they are.
C14_Teardown ==
  /\ ~alive ~> joined
  /\ [](joined => pc = "exited")
  /\ [][/\ (~alive /\ pc # "loop") => pc' # "loop"
        /\ (~alive /\ CycleStep) => pc' = "exited"
        /\ ~alive' => cycles' <= MaxTeardownCycles + 1
        /\ (pc = "exited" \/ joined) =>
             UNCHANGED << frames, frame_pointer, cycles, display, playing, pc,
                          tick_timer, consumer >>]_vars

\* The join has returned after the thread finished the cycle it was let into
\* when the flag was cleared.
C14_Witness ==
  /\ joined
  /\ pc = "exited"
  /\ cycles = MaxTeardownCycles + 1

(***************************************************************************)
(* The mutexes.  In this specification a cycle is split at every lock and  *)
(* unlock of Display, Audio and Input, and a Display operation at every    *)
(* byte it changes (draw_sprite, clear and the copy of set_screen all go   *)
(* through the screen by rising index).  What a cycle does to the frame    *)
(* and the history is private to the machine thread and is done in one     *)
(* step, inside the instruction's critical section.                        *)
(***************************************************************************)
MaxLockCycles == 3

\* D001 00E0 E0A1: draw the top row of glyph 0, clear, skip if key V0 is up.
RomLocks == << 208, 1, 0, 224, 224, 161 >>

\* An op_draw that forgets the Display's mutex.
OpLockOf_DrawUnlocked(op) ==
  CASE op = "Disp_Clear" -> "display"
    [] op = "Sound_Set" -> "audio"
    [] op \in {"KeyOp_Await", "KeyOp_Skip_Pressed", "KeyOp_Skip_Not_Pressed"} -> "input"
    [] OTHER -> "none"

\* The mutex the instruction's op_* method locks.
OpLockOf(op) ==
  CASE op \in {"Disp_Clear", "Disp"} -> "display"
    [] op = "Sound_Set" -> "audio"
    [] op \in {"KeyOp_Await", "KeyOp_Skip_Pressed", "KeyOp_Skip_Not_Pressed"} -> "input"
    [] OTHER -> "none"

\* Mutex::lock by a thread (l = "none": no mutex is taken) and the drop of
\* the guard the thread holds.
Free(l) == IF l = "none" THEN TRUE ELSE holder[l] = "none"

Acquire(thread, l) == IF l = "none" THEN holder ELSE [holder EXCEPT ![l] = thread]

Release(thread) == [l \in Locks |-> IF holder[l] = thread THEN "none" ELSE holder[l]]

HeldBy(thread) == {l \in Locks : holder[l] = thread}

\* The bytes in which screen "to" differs from screen "from".
Writes(from, to) ==
  [p \in {q \in DOMAIN from \cup DOMAIN to : At(from, q) # At(to, q)} |-> At(to, p)]

\* The countdown of this cycle takes the sound timer to zero and so locks
\* Audio to clear the flag.
ClearsAudio ==
  /\ Timer_positive(CurrentFrame.sound_timer)
  /\ SaturatingSub(CurrentFrame.sound_timer, TimerDelta(tick_duration, delta)) = Timer_new

\* The cycle begins: the countdown, locking Audio if it has to.
CountdownStep ==
  /\ pc = "cycle"
  /\ cycles < MaxLockCycles
  /\ IF ClearsAudio
     THEN /\ Free("audio")
          /\ holder' = Acquire("vm", "audio")
          /\ pc' = "cs_audio"
     ELSE /\ pc' = "op"
          /\ UNCHANGED holder
  /\ UNCHANGED << loader, teardown, todo, snapshot, settled, env_at, frames, frame_pointer,
                  tick_timer, config, enable_break, consumer, display, playing,
                  pressed_keys, delta, result, tick_result, cycles, stepped, drained,
                  at_call >>

AudioClear ==
  /\ pc = "cs_audio"
  /\ playing' = FALSE
  /\ holder' = Release("vm")
  /\ pc' = "op"
  /\ UNCHANGED << loader, teardown, todo, snapshot, settled, env_at, frames, frame_pointer,
                  tick_timer, config, enable_break, consumer, display, pressed_keys,
                  delta, result, tick_result, cycles, stepped, drained, at_call >>

\* execute enters the op_* method, which locks what it needs.
OpLock ==
  /\ pc = "op"
  /\ Free(OpLockOf(CurrentOp))
  /\ holder' = Acquire("vm", OpLockOf(CurrentOp))
  /\ pc' = "cs_op"
  /\ UNCHANGED << loader, teardown, todo, snapshot, settled, env_at, frames, frame_pointer,
                  tick_timer, config, enable_break, consumer, display, playing,
                  pressed_keys, delta, result, tick_result, cycles, stepped, drained,
                  at_call >>

\* The instruction proper: Input is read and Audio written here; what it
\* changes on the Display is left to be written byte by byte.
OpRun(number) ==
  /\ pc = "cs_op"
  /\ LET m == Cycle(CurrentFrame, display, playing, tick_duration, delta,
                    pressed_keys, number)
         h == update_stack([frames |-> frames, frame_pointer |-> frame_pointer],
                           m.frame, m.screen, enabled)
     IN  /\ ~m.panic
         /\ playing' = m.playing
         /\ frames' = h.frames
         /\ frame_pointer' = h.frame_pointer
         /\ tick_result' = m.result
         /\ todo' = Writes(display, m.screen)
  /\ cycles' = cycles + 1
  /\ pc' = "cs_write"
  /\ delta' = 0
  /\ result' = FALSE
  /\ drained' = NothingDrained
  /\ at_call' = NoCall
  /\ UNCHANGED << loader, teardown, holder, snapshot, settled, env_at, tick_timer, config,
                  enable_break, consumer, display, pressed_keys, stepped >>

\* process_debugger finds the channel empty and locks the Display for
\* set_screen.
DrainLock ==
  /\ pc = "drain"
  /\ consumer = << >>
  /\ Free("display")
  /\ holder' = Acquire("vm", "display")
  /\ todo' = Writes(display, set_screen(display, CurrentFrame.screen))
  /\ pc' = "cs_set_screen"
  /\ UNCHANGED << loader, teardown, snapshot, settled, env_at, frames, frame_pointer, tick_timer,
                  config, enable_break, consumer, display, playing, pressed_keys, delta,
                  result, tick_result, cycles, stepped, drained, at_call >>

\* One byte of the Display operation in progress, or, when none is left, the
\* end of the critical section.
DisplayWrite ==
  /\ pc \in {"cs_write", "cs_set_screen"}
  /\ IF DOMAIN todo # {}
     THEN LET p == CHOOSE q \in DOMAIN todo : \A r \in DOMAIN todo : q <= r
          IN  /\ display' = Store(display, p :> todo[p])
              /\ todo' = [q \in DOMAIN todo \ {p} |-> todo[q]]
              /\ UNCHANGED << holder, settled, pc, delta, result, tick_result, drained,
                              at_call >>
     ELSE /\ holder' = Release("vm")
          /\ settled' = display
          /\ UNCHANGED << display, todo >>
          /\ IF pc = "cs_write"
             THEN /\ pc' = IF enabled THEN "stack" ELSE LoopOrExit
                  /\ UNCHANGED << delta, result, tick_result, drained, at_call >>
             ELSE IF result
                  THEN /\ pc' = "cycle"
                       /\ UNCHANGED << delta, result, tick_result, drained, at_call >>
                  ELSE /\ pc' = LoopOrExit
                       /\ tick_result' = "Ok"
                       /\ delta' = 0
                       /\ result' = FALSE
                       /\ drained' = NothingDrained
                       /\ at_call' = NoCall
  /\ UNCHANGED << loader, teardown, snapshot, env_at, frames, frame_pointer, tick_timer, config,
                  enable_break, consumer, playing, pressed_keys, cycles, stepped >>

\* update_stack, debugger enabled: the Display is locked to copy its screen.
StackLock ==
  /\ pc = "stack"
  /\ Free("display")
  /\ holder' = Acquire("vm", "display")
  /\ pc' = "cs_stack"
  /\ UNCHANGED << loader, teardown, todo, snapshot, settled, env_at, frames, frame_pointer,
                  tick_timer, config, enable_break, consumer, display, playing,
                  pressed_keys, delta, result, tick_result, cycles, stepped, drained,
                  at_call >>

StackRead ==
  /\ pc = "cs_stack"
  /\ holder' = Release("vm")
  /\ pc' = LoopOrExit
  /\ UNCHANGED << loader, teardown, todo, snapshot, settled, env_at, frames, frame_pointer,
                  tick_timer, config, enable_break, consumer, display, playing,
                  pressed_keys, delta, result, tick_result, cycles, stepped, drained,
                  at_call >>

\* The environment thread: get_display_snapshot, is_playing_sound and the
\* update of the keys each lock one mutex, act and unlock.
EnvLock(l) ==
  /\ env_at = "idle"
  /\ Free(l)
  /\ holder' = Acquire("env", l)
  /\ env_at' = l
  /\ UNCHANGED << loader, teardown, todo, snapshot, settled, frames, frame_pointer, tick_timer,
                  config, enable_break, consumer, display, playing, pressed_keys, pc,
                  delta, result, tick_result, cycles, stepped, drained, at_call >>

EnvSnapshot ==
  /\ env_at = "display"
  /\ snapshot' = display
  /\ holder' = Release("env")
  /\ env_at' = "idle"
  /\ UNCHANGED << loader, teardown, todo, settled, frames, frame_pointer, tick_timer, config,
                  enable_break, consumer, display, playing, pressed_keys, pc, delta,
                  result, tick_result, cycles, stepped, drained, at_call >>

EnvIsPlaying ==
  /\ env_at = "audio"
  /\ holder' = Release("env")
  /\ env_at' = "idle"
  /\ UNCHANGED << loader, teardown, todo, snapshot, settled, frames, frame_pointer, tick_timer,
                  config, enable_break, consumer, display, playing, pressed_keys, pc,
                  delta, result, tick_result, cycles, stepped, drained, at_call >>

EnvUpdateKeys(keys) ==
  /\ env_at = "input"
  /\ pressed_keys' = keys
  /\ holder' = Release("env")
  /\ env_at' = "idle"
  /\ UNCHANGED << loader, teardown, todo, snapshot, settled, frames, frame_pointer, tick_timer,
                  config, enable_break, consumer, display, playing, pc, delta, result,
                  tick_result, cycles, stepped, drained, at_call >>

InitLocks ==
  /\ rom_bytes \in {RomLocks, RomTimers}
  /\ new_result = "Ok"
  /\ nexts = Uncounted
  /\ unbroken = Uncounted
  /\ frames = << InitialFrame(rom_bytes) >>
  /\ frame_pointer = 0
  /\ tick_timer = 0
  /\ tick_duration = TickDuration(VM_ORIGINAL_HZ)
  /\ enabled \in BOOLEAN
  /\ enable_break = FALSE
  /\ consumer = << >>
  /\ display = EmptyScreen
  /\ playing = FALSE
  /\ pressed_keys = << >>
  /\ pc = "loop"
  /\ delta = 0
  /\ result = FALSE
  /\ tick_result = "Ok"
  /\ cycles = 0
  /\ stepped = FALSE
  /\ drained = NothingDrained
  /\ at_call = NoCall
  /\ alive = TRUE
  /\ joined = FALSE
  /\ NoLocking

NextLocks ==
  \/ ToggleBreak
  \/ \E d \in Deltas : TickAccumulate(d)
  \/ \E d \in Deltas : TickCross(d)
  \/ CountdownStep
  \/ AudioClear
  \/ OpLock
  \/ \E number \in RandomBytes : OpRun(number)
  \/ DrainLock
  \/ DisplayWrite
  \/ StackLock
  \/ StackRead
  \/ \E l \in Locks : EnvLock(l)
  \/ EnvSnapshot
  \/ EnvIsPlaying
  \/ \E keys \in KeyStates : EnvUpdateKeys(keys)

SpecLocks == InitLocks /\ [][NextLocks]_vars

\* The stages of the machine thread inside a critical section.
CriticalStages == {"cs_audio", "cs_op", "cs_write", "cs_set_screen", "cs_stack"}

\* C15: neither thread ever holds two of the three mutexes; the machine
\* thread holds one only inside the single read or write it was taken for and
\* the environment only inside its one call, so a thread that waits for a
\* mutex holds none and no wait can be circular; the Display is changed only
\* by the holder of its mutex, and every snapshot the environment takes is the
\* Display as a finished operation left it, never a partly written one.
C15_Locks ==
  /\ [](\A thread \in {"vm", "env"} : Cardinality(HeldBy(thread)) <= 1)
  /\ [](pc \notin CriticalStages => HeldBy("vm") = {})
  /\ [](\A l \in Locks : holder[l] = "env" <=> env_at = l)
  /\ [](DOMAIN todo # {} => holder["display"] = "vm")
  /\ [][display' # display => holder["display"] = "vm" /\ holder'["display"] = "vm"]_vars
  /\ [][snapshot' # snapshot => snapshot' = settled /\ DOMAIN todo = {}]_vars

\* A clear is half written under the Display's mutex, after the environment
\* took a snapshot of the finished draw, while the environment is inside
\* is_playing_sound.
C15_Witness ==
  /\ pc = "cs_write"
  /\ DOMAIN todo # {}
  /\ display # settled
  /\ display # EmptyScreen
  /\ snapshot = settled
  /\ snapshot # EmptyScreen
  /\ holder["display"] = "vm"
  /\ env_at = "audio"

(***************************************************************************)
(* The command channel with several commands waiting in it.                *)
(***************************************************************************)
MaxPending == 3

MaxQueueCycles == 1

\* The machine about to run with the debugger enabled and the channel empty;
\* "count" starts, or leaves out, the history of the commands sent with the
\* break flag clear.
InitQueueCounting(count) ==
  /\ rom_bytes = RomDraw
  /\ new_result = "Ok"
  /\ nexts = Uncounted
  /\ unbroken = count
  /\ frames = << InitialFrame(rom_bytes) >>
  /\ frame_pointer = 0
  /\ tick_timer = 0
  /\ tick_duration = TickDuration(VM_ORIGINAL_HZ)
  /\ enabled = TRUE
  /\ enable_break = FALSE
  /\ consumer = << >>
  /\ display = EmptyScreen
  /\ playing = FALSE
  /\ pressed_keys = << >>
  /\ pc = "loop"
  /\ delta = 0
  /\ result = FALSE
  /\ tick_result = "Ok"
  /\ cycles = 0
  /\ stepped = FALSE
  /\ drained = NothingDrained
  /\ at_call = NoCall
  /\ alive = TRUE
  /\ joined = FALSE
  /\ NoLocking

InitQueue == InitQueueCounting(Uncounted)

ExecuteQueueCycle(number) == ExecuteCycleWithin(MaxQueueCycles, number)

NextQueue ==
  \/ \E command \in Commands : SendCommandWithin(MaxPending, command)
  \/ ToggleBreak
  \/ \E d \in Deltas : TickAccumulate(d)
  \/ \E d \in Deltas : TickCross(d)
  \/ Recv
  \/ DrainEnd
  \/ \E number \in RandomBytes : ExecuteQueueCycle(number)

SpecQueue == InitQueue /\ [][NextQueue]_vars

\* What the machine thread's side of the debugger looks like.
DebuggerState == [frames |-> frames, frame_pointer |-> frame_pointer, result |-> result]

\* C16: the channel changes in two ways only.  A send puts one command behind
\* all that wait and leaves the machine's state alone.  A removal is made by
\* the machine thread in its drain, takes the command that has waited longest,
\* takes it alone and applies exactly that command; a command no longer in the
\* channel is never applied again: outside a removal the drain changes neither
\* the cursor nor its answer, and it ends only when the channel is empty.
C16_CommandsInOrder ==
  [][/\ consumer' # consumer =>
          \/ /\ \E command \in Commands : consumer' = Append(consumer, command)
             /\ UNCHANGED << frames, frame_pointer, result, pc >>
          \/ /\ pc = "drain"
             /\ pc' = "drain"
             /\ consumer # << >>
             /\ consumer' = Tail(consumer)
             /\ DebuggerState' = process_debugger_command(DebuggerState, Head(consumer))
     /\ (pc = "drain" /\ consumer' = consumer) =>
          /\ UNCHANGED << frames, frame_pointer >>
          /\ pc' # "drain" => consumer = << >>
     /\ pc # "drain" => Len(consumer') >= Len(consumer)]_vars

\* The drain has taken a command that moved the cursor and two different
\* commands, sent after it, still wait.
C16_Witness ==
  /\ pc = "drain"
  /\ drained.any
  /\ frame_pointer # at_call.frame_pointer
  /\ Len(consumer) = 2
  /\ consumer[1] # consumer[2]

(***************************************************************************)
(* Construction: Runner::new hands the ROM it read to Vm::new and spawns   *)
(* the machine thread if a machine came back.                              *)
(***************************************************************************)
MaxSmallRom == 4

MaxRomExcess == 2

\* ROM lengths about the three sizes that matter: none, the largest ROM
\* accepted, and the memory above the interpreter less the internal area only.
RomLengths ==
  (0 .. MaxSmallRom)
    \cup (ROM_SIZE - 1 .. ROM_SIZE + MaxRomExcess)
    \cup (ROM_SIZE + VM_DISPLAY_REFRESH_SIZE - 1 .. ROM_SIZE + VM_DISPLAY_REFRESH_SIZE + MaxRomExcess)

RomFills == {"zeros", "ones", "ramp"}

Rom(len, fill) ==
  [i \in 1 .. len |-> CASE fill = "zeros" -> 0
                        [] fill = "ones" -> U8 - 1
                        [] fill = "ramp" -> ((i - 1) % (U8 - 1)) + 1]

\* A loader that turns away a ROM of exactly ROM_SIZE bytes.
Vm_new_Exclusive(rom, hz) ==
  IF Len(rom) = 0 THEN [result |-> "ROM is empty"]
  ELSE IF Len(rom) >= ROM_SIZE THEN [result |-> "ROM size too big"]
  ELSE [result |-> "Ok", frames |-> << InitialFrame(rom) >>, frame_pointer |-> 0,
        tick_timer |-> 0, tick_duration |-> TickDuration(hz)]

Vm_new(rom, hz) ==
  IF Len(rom) = 0 THEN [result |-> "ROM is empty"]
  ELSE IF Len(rom) > ROM_SIZE THEN [result |-> "ROM size too big"]
  ELSE [result |-> "Ok", frames |-> << InitialFrame(rom) >>, frame_pointer |-> 0,
        tick_timer |-> 0, tick_duration |-> TickDuration(hz)]

\* Runner::new has read the ROM; there is no machine and no thread yet.
InitNew ==
  /\ \E len \in RomLengths, fill \in RomFills : rom_bytes = Rom(len, fill)
  /\ new_result = "pending"
  /\ nexts = Uncounted
  /\ unbroken = Uncounted
  /\ frames = << >>
  /\ frame_pointer = 0
  /\ tick_timer = 0
  /\ tick_duration = 0
  /\ enabled \in BOOLEAN
  /\ enable_break = FALSE
  /\ consumer = << >>
  /\ display = EmptyScreen
  /\ playing = FALSE
  /\ pressed_keys = << >>
  /\ pc = "unspawned"
  /\ delta = 0
  /\ result = FALSE
  /\ tick_result = "Ok"
  /\ cycles = 0
  /\ stepped = FALSE
  /\ drained = NothingDrained
  /\ at_call = NoCall
  /\ alive = TRUE
  /\ joined = FALSE
  /\ NoLocking

\* The call of Vm::new.
VmNew(hz) ==
  /\ new_result = "pending"
  /\ LET vm == Vm_new(rom_bytes, hz)
     IN  /\ new_result' = vm.result
         /\ IF vm.result = "Ok"
            THEN /\ frames' = vm.frames
                 /\ frame_pointer' = vm.frame_pointer
                 /\ tick_timer' = vm.tick_timer
                 /\ tick_duration' = vm.tick_duration
            ELSE UNCHANGED << frames, frame_pointer, tick_timer, tick_duration >>
  /\ UNCHANGED << rom_bytes, nexts, unbroken, teardown, locking, enabled, enable_break, consumer, display,
                  playing, pressed_keys, pc, delta, result, tick_result, cycles, stepped,
                  drained, at_call >>

\* The Ok arm of Runner::new: thread::spawn.
Spawn ==
  /\ new_result = "Ok"
  /\ pc = "unspawned"
  /\ pc' = "loop"
  /\ UNCHANGED << loader, teardown, locking, frames, frame_pointer, tick_timer, config,
                  enable_break, consumer, display, playing, pressed_keys, delta, result,
                  tick_result, cycles, stepped, drained, at_call >>

NextNew ==
  \/ \E hz \in Hzs : VmNew(hz)
  \/ Spawn

SpecNew == InitNew /\ [][NextNew]_vars

\* C17 as stated, with the largest ROM taken to be the memory less the
\* interpreter's 512 bytes and the 96 internal bytes.
C17_AcceptedUpToClaimedSize ==
  new_result # "pending" =>
    (new_result = "Ok" <=>
       /\ 0 < Len(rom_bytes)
       /\ Len(rom_bytes) <= MEMORY_SIZE - VM_INTERPRETER_SIZE - VM_INTERNAL_SIZE)

\* C17: construction succeeds exactly for a ROM of 1 to ROM_SIZE bytes, where
\* ROM_SIZE is the memory less the interpreter's 512 bytes, the 256 bytes of
\* display refresh and the 96 internal bytes; an empty ROM gives the empty-ROM
\* error and a longer one the too-big error, and after either there is no
\* machine and the thread is never spawned; the thread is spawned only after
\* a machine was made.
C17_AcceptedUpToRomSize ==
  /\ ROM_SIZE = MEMORY_SIZE - VM_INTERPRETER_SIZE - VM_DISPLAY_REFRESH_SIZE - VM_INTERNAL_SIZE
  /\ new_result # "pending" =>
       /\ new_result = "Ok" <=> (0 < Len(rom_bytes) /\ Len(rom_bytes) <= ROM_SIZE)
       /\ Len(rom_bytes) = 0 => new_result = "ROM is empty"
       /\ Len(rom_bytes) > ROM_SIZE => new_result = "ROM size too big"
  /\ new_result # "Ok" => frames = << >> /\ pc = "unspawned"

\* Both ends of the accepted range and both errors: states told apart by the
\* ROM's length.
C17_Witness ==
  /\ Len(rom_bytes) = ROM_SIZE
  /\ new_result = "Ok"
  /\ pc = "loop"

\* C18: the machine Vm::new returns has one frame with PC = 512, the ROM's
\* bytes at 512 .. 512 + len - 1 as they were given, the font table at
\* 0 .. fontlen - 1, every other byte of the 4096 zero, all registers, I and
\* both timers zero, an empty call stack and an empty screen.
C18_InitialFrame ==
  new_result = "Ok" =>
    /\ Len(frames) = 1
    /\ frame_pointer = 0
    /\ LET frame == frames[1]
           len == Len(rom_bytes)
       IN  /\ frame.PC = VM_INTERPRETER_SIZE
           /\ \A i \in 0 .. len - 1 : At(frame.memory, VM_INTERPRETER_SIZE + i) = rom_bytes[i + 1]
           /\ \A n \in 0 .. Len(FONTS) - 1 : At(frame.memory, n) = FONTS[n + 1]
           /\ \A a \in 0 .. MEMORY_SIZE - 1 :
                (a >= Len(FONTS) /\ ~(a \in VM_INTERPRETER_SIZE .. VM_INTERPRETER_SIZE + len - 1))
                  => At(frame.memory, a) = 0
           /\ DOMAIN frame.memory \subseteq 0 .. MEMORY_SIZE - 1
           /\ \A r \in 0 .. REGISTER_COUNT - 1 : frame.registers[r] = 0
           /\ DOMAIN frame.registers = 0 .. REGISTER_COUNT - 1
           /\ frame.I = 0
           /\ frame.delay_timer = Timer_new
           /\ frame.sound_timer = Timer_new
           /\ frame.stack = << >>
           /\ frame.screen = EmptyScreen

\* A machine made from the largest ROM, none of whose bytes is zero.
C18_Witness ==
  /\ new_result = "Ok"
  /\ Len(rom_bytes) = ROM_SIZE
  /\ \A i \in 1 .. Len(rom_bytes) : rom_bytes[i] = ((i - 1) % (U8 - 1)) + 1
  /\ Len(frames) = 1
  /\ pc = "unspawned"

(***************************************************************************)
(* A return with nothing on the call stack.                                *)
(***************************************************************************)
\* 6003 F015 00EE 6101: V0 = 3, delay timer = V0, return, V1 = 1.
RomReturn == << 96, 3, 240, 21, 0, 238, 97, 1 >>

InitReturn ==
  /\ rom_bytes = RomReturn
  /\ new_result = "Ok"
  /\ nexts = Uncounted
  /\ unbroken = Uncounted
  /\ frames = << InitialFrame(rom_bytes) >>
  /\ frame_pointer = 0
  /\ tick_timer = 0
  /\ \E hz \in TimerHzs : tick_duration = TickDuration(hz)
  /\ enabled \in BOOLEAN
  /\ enable_break = FALSE
  /\ consumer = << >>
  /\ display = EmptyScreen
  /\ playing = FALSE
  /\ pressed_keys = << >>
  /\ pc = "loop"
  /\ delta = 0
  /\ result = FALSE
  /\ tick_result = "Ok"
  /\ cycles = 0
  /\ stepped = FALSE
  /\ drained = NothingDrained
  /\ at_call = NoCall
  /\ alive = TRUE
  /\ joined = FALSE
  /\ NoLocking

SpecReturn == InitReturn /\ [][NextTimers]_vars

\* The cycle about to run executes Return on an empty call stack.
ReturnOnEmptyStack ==
  /\ CycleStep
  /\ CurrentOp = "Flow_Return"
  /\ CurrentFrame.stack = << >>

\* C19: a cycle that executes Return on an empty call stack makes tick answer
\* an error and leaves the stack empty, and is committed all the same: the
\* frame it leaves (appended to the history when the debugger is enabled) has
\* the PC advanced by 2 and both timers counted down; the thread is back at
\* the head of its loop, is never stopped, and the cycle that then runs at the
\* next address executes its instruction as usual.
C19_ReturnOnEmptyStack ==
  /\ [][ReturnOnEmptyStack =>
          /\ tick_result' = "Err"
          /\ pc' = "loop"
          /\ CurrentFrameAfter.stack = << >>
          /\ CurrentFrameAfter.PC = CurrentFrame.PC + PC_INCREMENT
          /\ CurrentFrameAfter.delay_timer =
               SaturatingSub(CurrentFrame.delay_timer, TimerDelta(tick_duration, delta))
          /\ CurrentFrameAfter.sound_timer =
               SaturatingSub(CurrentFrame.sound_timer, TimerDelta(tick_duration, delta))
          /\ CurrentFrameAfter.registers = CurrentFrame.registers
          /\ CurrentFrameAfter.memory = CurrentFrame.memory
          /\ IF enabled
             THEN /\ frame_pointer' = frame_pointer + 1
                  /\ Len(frames') = frame_pointer' + 1
             ELSE frame_pointer' = frame_pointer /\ Len(frames') = Len(frames)]_vars
  /\ [][(CycleStep /\ CurrentOp # "Flow_Return") => tick_result' = "Ok"]_vars
  /\ [][(CycleStep /\ CurrentFrame.PC = VM_INTERPRETER_SIZE + 3 * PC_INCREMENT) =>
          /\ CurrentFrameAfter.registers[1] = 1
          /\ CurrentFrameAfter.PC = CurrentFrame.PC + PC_INCREMENT]_vars
  /\ [](pc \in {"loop", "drain", "cycle"})

\* The faulty return was executed with the delay timer running, and the
\* instruction after it has been executed since.
C19_Witness ==
  /\ cycles = 4
  /\ CurrentFrame.PC = VM_INTERPRETER_SIZE + 4 * PC_INCREMENT
  /\ CurrentFrame.registers[1] = 1
  /\ CurrentFrame.stack = << >>
  /\ Timer_positive(CurrentFrame.delay_timer)
  /\ tick_duration > 0
  /\ pc = "loop"

(***************************************************************************)
(* Call and Return, from a frame whose PC stands at a Call to a Return.    *)
(* The debugger is enabled and nothing breaks, so the history keeps the    *)
(* frame before and after every cycle.                                     *)
(***************************************************************************)
MaxFlowCycles == 2

FlowPCs == {0, 513, 789, 4094}

FlowTargets == {2, 123, 1000, 4095}

FlowStacks ==
  { << >>,
    << [return_address |-> 512] >>,
    << [return_address |-> 512], [return_address |-> 4000] >> }

\* 2nnn at p and 00EE at nnn (as far as the memory reaches), in the memory of
\* a machine loaded with the ROM 00EE.
FlowMemory(p, nnn) ==
  LET return_at == [a \in {b \in {nnn, nnn + 1} : b < MEMORY_SIZE} |->
                      IF a = nnn THEN 0 ELSE 238]
      call_at == (p :> (32 + nnn \div U8)) @@ (p + 1 :> nnn % U8)
  IN  Store(Store(InitialMemory(<< 0, 238 >>), return_at), call_at)

FlowFrame(p, nnn, stack) ==
  [VmFrame_new EXCEPT !.PC = p, !.stack = stack, !.memory = FlowMemory(p, nnn)]

InitFlow ==
  /\ rom_bytes = << 0, 238 >>
  /\ new_result = "Ok"
  /\ nexts = Uncounted
  /\ unbroken = Uncounted
  /\ \E p \in FlowPCs, nnn \in FlowTargets, stack \in FlowStacks :
       frames = << FlowFrame(p, nnn, stack) >>
  /\ frame_pointer = 0
  /\ tick_timer = 0
  /\ tick_duration = TickDuration(VM_ORIGINAL_HZ)
  /\ enabled = TRUE
  /\ enable_break = FALSE
  /\ consumer = << >>
  /\ display = EmptyScreen
  /\ playing = FALSE
  /\ pressed_keys = << >>
  /\ pc = "loop"
  /\ delta = 0
  /\ result = FALSE
  /\ tick_result = "Ok"
  /\ cycles = 0
  /\ stepped = FALSE
  /\ drained = NothingDrained
  /\ at_call = NoCall
  /\ alive = TRUE
  /\ joined = FALSE
  /\ NoLocking

ExecuteFlowCycle(number) == ExecuteCycleWithin(MaxFlowCycles, number)

NextFlow ==
  \/ \E d \in Deltas : TickAccumulate(d)
  \/ \E d \in Deltas : TickCross(d)
  \/ \E number \in RandomBytes : ExecuteFlowCycle(number)

SpecFlow == InitFlow /\ [][NextFlow]_vars

\* The instruction the cycle from history frame i executed.
Executed(i) == decode(fetch(frames[i]))

\* C20: in the history, a cycle that executed Call nnn at PC = p left the
\* stack longer by exactly one entry, the return address p, and PC = nnn; a
\* cycle that executed Return on a stack that was not empty took the top
\* entry r off the stack and left PC = r + 2; and a Call followed at once by
\* the Return at its target left PC = p + 2 and the stack as it was before
\* the Call.
C20_CallReturn ==
  \A i \in 1 .. Len(frames) - 1 :
    LET before == frames[i]
        after == frames[i + 1]
    IN  /\ Executed(i).op = "Flow_Call" =>
             /\ after.stack = Append(before.stack, [return_address |-> before.PC])
             /\ after.PC = Executed(i).nnn
        /\ (Executed(i).op = "Flow_Return" /\ before.stack # << >>) =>
             /\ after.PC = before.stack[Len(before.stack)].return_address + PC_INCREMENT
             /\ after.stack = SubSeq(before.stack, 1, Len(before.stack) - 1)
        /\ (/\ i + 2 <= Len(frames)
            /\ Executed(i).op = "Flow_Call"
            /\ Executed(i + 1).op = "Flow_Return") =>
             /\ frames[i + 2].PC = before.PC + PC_INCREMENT
             /\ frames[i + 2].stack = before.stack

\* The call from 789 to 123 and the return to 791, with two older entries on
\* the stack.
C20_Witness ==
  /\ Len(frames) = 3
  /\ frames[1].PC = 789
  /\ Len(frames[1].stack) = 2
  /\ Executed(1).op = "Flow_Call"
  /\ frames[2].PC = 123
  /\ Len(frames[2].stack) = 3
  /\ Executed(2).op = "Flow_Return"
  /\ frames[3].PC = 791
  /\ frames[3].stack = frames[1].stack

(***************************************************************************)
(* Arithmetic, shifts and comparisons: one instruction at PC_START, its    *)
(* operands in Vx and Vy, the other registers holding values of their own. *)
(***************************************************************************)
MaxAluCycles == 1

\* Bytes about the ends and the middle of the range.
AluBytes == {0, 1, 2, 127, 128, 129, 254, 255}

AluXs == {0, 14}

AluYs == {0, 1, 15}

\* 8xy4, 8xy5, 8xy7, 8xy6, 8xyE, 5xy0 and 9xy0; 3xnn and 4xnn.
AluWords ==
  { group * 4096 + x * 256 + y * 16 + n :
      <<group, n>> \in {<<8, 4>>, <<8, 5>>, <<8, 7>>, <<8, 6>>, <<8, 14>>, <<5, 0>>, <<9, 0>>},
      x \in AluXs, y \in AluYs }
    \cup { group * 4096 + x * 256 + nn : group \in {3, 4}, x \in AluXs, nn \in AluBytes }

\* Register r holds 16 + r unless it is an operand.
AluRegisters(x, y, a, b) ==
  [r \in 0 .. REGISTER_COUNT - 1 |-> IF r = x THEN a ELSE IF r = y THEN b ELSE 16 + r]

AluFrame(word, a, b) ==
  [VmFrame_new EXCEPT
     !.registers = AluRegisters((word \div 256) % 16, (word \div 16) % 16, a, b),
     !.memory = Store(InitialMemory(<< word \div U8, word % U8 >>), << >>)]

InitAlu ==
  /\ \E word \in AluWords, a \in AluBytes, b \in AluBytes :
       /\ rom_bytes = << word \div U8, word % U8 >>
       /\ frames = << AluFrame(word, a, b) >>
  /\ new_result = "Ok"
  /\ nexts = Uncounted
  /\ unbroken = Uncounted
  /\ frame_pointer = 0
  /\ tick_timer = 0
  /\ tick_duration = TickDuration(VM_ORIGINAL_HZ)
  /\ enabled \in BOOLEAN
  /\ enable_break = FALSE
  /\ consumer = << >>
  /\ display = EmptyScreen
  /\ playing = FALSE
  /\ pressed_keys = << >>
  /\ pc = "loop"
  /\ delta = 0
  /\ result = FALSE
  /\ tick_result = "Ok"
  /\ cycles = 0
  /\ stepped = FALSE
  /\ drained = NothingDrained
  /\ at_call = NoCall
  /\ alive = TRUE
  /\ joined = FALSE
  /\ NoLocking

ExecuteAluCycle(number) == ExecuteCycleWithin(MaxAluCycles, number)

NextAlu ==
  \/ \E d \in Deltas : TickAccumulate(d)
  \/ \E d \in Deltas : TickCross(d)
  \/ \E number \in RandomBytes : ExecuteAluCycle(number)

SpecAlu == InitAlu /\ [][NextAlu]_vars

\* The instruction the cycle about to run executes, and its operands.
CurrentCode == decode(fetch(CurrentFrame))

Vx == CurrentFrame.registers[CurrentCode.x]

Vy == CurrentFrame.registers[CurrentCode.y]

\* C21: a cycle that executes Math_Add, Math_Minus or Math_Minus_Reverse with
\* destination x in 0..14 on a = Vx and b = Vy leaves Vx = (a + b) mod 256
\* with VF = 1 iff a + b > 255, Vx = (a - b) mod 256 with VF = 1 iff a >= b,
\* Vx = (b - a) mod 256 with VF = 1 iff b >= a; VF is 0 otherwise, and no
\* other register changes.
C21_Arithmetic ==
  [][(CycleStep /\ CurrentOp \in {"Math_Add", "Math_Minus", "Math_Minus_Reverse"}
        /\ CurrentCode.x \in 0 .. 14) =>
       LET x == CurrentCode.x
           a == Vx
           b == Vy
           after == CurrentFrameAfter.registers
       IN  /\ CurrentOp = "Math_Add" =>
                /\ after[x] = (a + b) % 256
                /\ after[15] = IF a + b > 255 THEN 1 ELSE 0
           /\ CurrentOp = "Math_Minus" =>
                /\ after[x] = (a - b) % 256
                /\ after[15] = IF a >= b THEN 1 ELSE 0
           /\ CurrentOp = "Math_Minus_Reverse" =>
                /\ after[x] = (b - a) % 256
                /\ after[15] = IF b >= a THEN 1 ELSE 0
           /\ \A r \in 0 .. 14 : r # x => after[r] = CurrentFrame.registers[r]]_vars

\* 255 + 1 was added into V14: the sum wrapped to 0 and the carry is set.
C21_Witness ==
  /\ cycles = 1
  /\ Len(rom_bytes) = 2
  /\ rom_bytes[1] = 142
  /\ rom_bytes[2] % 16 = 4
  /\ rom_bytes[2] \div 16 = 1
  /\ CurrentFrame.registers[14] = 0
  /\ CurrentFrame.registers[1] = 1
  /\ CurrentFrame.registers[15] = 1

\* C22: a cycle that executes a shift with x in 0..14 on v = Vx leaves, for
\* the right shift, VF = v mod 2 and Vx = v div 2, and for the left shift
\* VF = v div 128 and Vx = (2 * v) mod 256; y plays no part: every register
\* but Vx and VF, Vy among them, is as it was.
C22_Shifts ==
  [][(CycleStep /\ CurrentOp \in {"BitOp_Shift_Right", "BitOp_Shift_Left"}
        /\ CurrentCode.x \in 0 .. 14) =>
       LET x == CurrentCode.x
           v == Vx
           after == CurrentFrameAfter.registers
       IN  /\ CurrentOp = "BitOp_Shift_Right" =>
                /\ after[15] = v % 2
                /\ after[x] = v \div 2
           /\ CurrentOp = "BitOp_Shift_Left" =>
                /\ after[15] = v \div 128
                /\ after[x] = (2 * v) % 256
           /\ \A r \in 0 .. 14 : r # x => after[r] = CurrentFrame.registers[r]]_vars

\* 129 in V14 was shifted right with y = 1: V14 = 64, VF = 1, V1 still 254.
C22_Witness ==
  /\ cycles = 1
  /\ Len(rom_bytes) = 2
  /\ rom_bytes[1] = 142
  /\ rom_bytes[2] = 22
  /\ CurrentFrame.registers[14] = 64
  /\ CurrentFrame.registers[15] = 1
  /\ CurrentFrame.registers[1] = 254

\* The four comparison instructions.
CondOps == {"Cond_Eq_Const", "Cond_Neq_Const", "Cond_Eq_Reg", "Cond_Neq_Reg"}

\* C23: a cycle that executes a comparison changes only the PC (and the
\* screen copy the history keeps): the equality skips advance it by 4 when
\* the operands are equal and by 2 otherwise, the inequality skips by 4 when
\* they differ and by 2 when they are equal.
C23_Comparisons ==
  [][(CycleStep /\ CurrentOp \in CondOps) =>
       LET other == IF CurrentOp \in {"Cond_Eq_Const", "Cond_Neq_Const"}
                    THEN CurrentCode.nn ELSE Vy
           skip == IF CurrentOp \in {"Cond_Eq_Const", "Cond_Eq_Reg"}
                   THEN Vx = other ELSE Vx # other
       IN  /\ CurrentFrameAfter.PC = CurrentFrame.PC + (IF skip THEN 4 ELSE 2)
           /\ [CurrentFrameAfter EXCEPT !.PC = 0, !.screen = << >>]
                = [CurrentFrame EXCEPT !.PC = 0, !.screen = << >>]
           /\ display' = display
           /\ playing' = playing
           /\ tick_result' = "Ok"]_vars

\* 3E80 found V14 = 128 and skipped; 9E10 found V14 = V1 and did not.
C23_Witness ==
  /\ cycles = 1
  /\ Len(rom_bytes) = 2
  /\ \/ /\ rom_bytes = << 62, 128 >>
        /\ CurrentFrame.registers[14] = 128
        /\ CurrentFrame.PC = 516
     \/ /\ rom_bytes = << 158, 16 >>
        /\ CurrentFrame.registers[14] = CurrentFrame.registers[1]
        /\ CurrentFrame.PC = 514

(***************************************************************************)
(* The key instructions: Ex9E, ExA1 or Fx0A at PC_START, a key number in   *)
(* Vx, the delay timer running or not, and an environment that changes the *)
(* held keys at any time.                                                  *)
(***************************************************************************)
MaxKeyCycles == 2

KeyWords == { group * 4096 + x * 256 + nn :
                <<group, nn>> \in {<<14, 158>>, <<14, 161>>, <<15, 10>>}, x \in AluXs }

\* What Input holds: the keys held, in the order update_keys pushed them.
KeyLists == { << >>, << 2 >>, << 5, 2 >>, << 0 >> }

KeyNumbers == {0, 2, 5, 200}

KeyTimers == {Timer_of(0), Timer_of(3 * TIMER_DURATION_NANO)}

KeyFrame(word, key, timer) ==
  [AluFrame(word, key, 0) EXCEPT !.delay_timer = timer]

InitKeys ==
  /\ \E word \in KeyWords, key \in KeyNumbers, timer \in KeyTimers :
       /\ rom_bytes = << word \div U8, word % U8 >>
       /\ frames = << KeyFrame(word, key, timer) >>
  /\ new_result = "Ok"
  /\ nexts = Uncounted
  /\ unbroken = Uncounted
  /\ frame_pointer = 0
  /\ tick_timer = 0
  /\ tick_duration = TickDuration(VM_ORIGINAL_HZ)
  /\ enabled \in BOOLEAN
  /\ enable_break = FALSE
  /\ consumer = << >>
  /\ display = EmptyScreen
  /\ playing = FALSE
  /\ pressed_keys \in KeyLists
  /\ pc = "loop"
  /\ delta = 0
  /\ result = FALSE
  /\ tick_result = "Ok"
  /\ cycles = 0
  /\ stepped = FALSE
  /\ drained = NothingDrained
  /\ at_call = NoCall
  /\ alive = TRUE
  /\ joined = FALSE
  /\ NoLocking

ExecuteKeyCycle(number) == ExecuteCycleWithin(MaxKeyCycles, number)

NextKeys ==
  \/ \E keys \in KeyLists : UpdateKeys(keys)
  \/ \E d \in Deltas : TickAccumulate(d)
  \/ \E d \in Deltas : TickCross(d)
  \/ \E number \in RandomBytes : ExecuteKeyCycle(number)

SpecKeys == InitKeys /\ [][NextKeys]_vars

\* Input::is_pressed as the cycle about to run will see it.
Held(key) == \E i \in 1 .. Len(pressed_keys) : pressed_keys[i] = key

\* The frame with what every cycle changes left out: the PC, the count of
\* the timers and the screen copy of the history.
Core(frame) ==
  [frame EXCEPT !.PC = 0, !.delay_timer = Timer_new, !.sound_timer = Timer_new, !.screen = << >>]

CountedDown(t) == SaturatingSub(t, TimerDelta(tick_duration, delta))

\* C24: a cycle that executes skip-if-pressed advances the PC by 4 when Input
\* holds key Vx and by 2 otherwise, skip-if-not-pressed by 4 when it does not
\* hold it and by 2 otherwise; registers, memory, I and stack are as before
\* and the timers are counted down, not set.
C24_KeySkips ==
  [][(CycleStep /\ CurrentOp \in {"KeyOp_Skip_Pressed", "KeyOp_Skip_Not_Pressed"}) =>
       LET skip == IF CurrentOp = "KeyOp_Skip_Pressed" THEN Held(Vx) ELSE ~Held(Vx)
       IN  /\ CurrentFrameAfter.PC = CurrentFrame.PC + (IF skip THEN 4 ELSE 2)
           /\ Core(CurrentFrameAfter) = Core(CurrentFrame)
           /\ CurrentFrameAfter.delay_timer = CountedDown(CurrentFrame.delay_timer)
           /\ CurrentFrameAfter.sound_timer = CountedDown(CurrentFrame.sound_timer)
           /\ pressed_keys' = pressed_keys]_vars

\* EEA1 ran with keys 5 and 2 held and V14 = 2: no skip.
C24_Witness ==
  /\ cycles = 1
  /\ rom_bytes = << 238, 161 >>
  /\ pressed_keys = << 5, 2 >>
  /\ CurrentFrame.registers[14] = 2
  /\ CurrentFrame.PC = 514
  /\ Timer_positive(CurrentFrame.delay_timer)

\* C25: a cycle that executes await-key while Input holds no key leaves PC,
\* registers, memory, I and stack as they were, counts the timers down and
\* hands the thread back to its loop; one that finds a key held puts the key
\* Input reports (the first it holds) into Vx, advances the PC by exactly 2
\* and changes nothing else.
C25_AwaitKey ==
  [][(CycleStep /\ CurrentOp = "KeyOp_Await") =>
       /\ CurrentFrameAfter.delay_timer = CountedDown(CurrentFrame.delay_timer)
       /\ CurrentFrameAfter.sound_timer = CountedDown(CurrentFrame.sound_timer)
       /\ pc' = "loop"
       /\ tick_result' = "Ok"
       /\ IF pressed_keys = << >>
          THEN /\ CurrentFrameAfter.PC = CurrentFrame.PC
               /\ Core(CurrentFrameAfter) = Core(CurrentFrame)
          ELSE /\ CurrentFrameAfter.PC = CurrentFrame.PC + 2
               /\ CurrentFrameAfter.registers[CurrentCode.x] = pressed_keys[1]
               /\ Core(CurrentFrameAfter) =
                    Core([CurrentFrame EXCEPT !.registers[CurrentCode.x] = pressed_keys[1]])]_vars

\* FE0A was issued twice: the first cycle found no key and only counted the
\* delay timer down, the second found key 5 and moved on.
C25_Witness ==
  /\ cycles = 2
  /\ rom_bytes = << 254, 10 >>
  /\ CurrentFrame.PC = 514
  /\ CurrentFrame.registers[14] = 5
  /\ CurrentFrame.delay_timer = Timer_of(TIMER_DURATION_NANO)
  /\ pressed_keys = << 5, 2 >>

(***************************************************************************)
(* Every instruction word: the word stands at PC_START of a machine whose  *)
(* registers, I, stack, Display and Audio all hold something.              *)
(***************************************************************************)
MaxDecodeCycles == 1

Words == 0 .. U16 - 1

DecodeDeltas == {2 * TIMER_DURATION_NANO}

DecodeScreen == (0 :> 1) @@ (SCREEN_SIZE_X + 1 :> 1)

DecodeFrame(word) ==
  [AluFrame(word, 16, 17) EXCEPT
     !.registers = [r \in 0 .. REGISTER_COUNT - 1 |-> 16 + r],
     !.I = 777,
     !.stack = << [return_address |-> 600] >>]

InitDecode ==
  /\ \E word \in Words :
       /\ rom_bytes = << word \div U8, word % U8 >>
       /\ frames = << DecodeFrame(word) >>
  /\ new_result = "Ok"
  /\ nexts = Uncounted
  /\ unbroken = Uncounted
  /\ frame_pointer = 0
  /\ tick_timer = 0
  /\ tick_duration = TickDuration(VM_ORIGINAL_HZ)
  /\ enabled = FALSE
  /\ enable_break = FALSE
  /\ consumer = << >>
  /\ display = DecodeScreen
  /\ playing = TRUE
  /\ pressed_keys = << >>
  /\ pc = "loop"
  /\ delta = 0
  /\ result = FALSE
  /\ tick_result = "Ok"
  /\ cycles = 0
  /\ stepped = FALSE
  /\ drained = NothingDrained
  /\ at_call = NoCall
  /\ alive = TRUE
  /\ joined = FALSE
  /\ NoLocking

ExecuteDecodeCycle(number) == ExecuteCycleWithin(MaxDecodeCycles, number)

NextDecode ==
  \/ \E d \in DecodeDeltas : TickAccumulate(d)
  \/ \E d \in DecodeDeltas : TickCross(d)
  \/ \E number \in RandomBytes : ExecuteDecodeCycle(number)

SpecDecode == InitDecode /\ [][NextDecode]_vars

\* The variants of OpCode with the operands each carries.
OpFields ==
  [op \in {"Disp_Clear", "Flow_Return", "Unknown"} |-> {"op"}]
    @@ [op \in {"Raw_Call", "Flow_Jump", "Flow_Call", "MEM_Set_I", "Flow_Jump_Offset"} |->
          {"op", "nnn"}]
    @@ [op \in {"Cond_Eq_Const", "Cond_Neq_Const", "Const_Set_Reg", "Const_Add_Reg", "Rand"} |->
          {"op", "x", "nn"}]
    @@ [op \in {"Cond_Eq_Reg", "Cond_Neq_Reg", "Assign", "BitOp_Or", "BitOp_And", "BitOp_Xor",
                "Math_Add", "Math_Minus", "BitOp_Shift_Right", "Math_Minus_Reverse",
                "BitOp_Shift_Left"} |-> {"op", "x", "y"}]
    @@ [op \in {"Disp"} |-> {"op", "x", "y", "n"}]
    @@ [op \in {"KeyOp_Skip_Pressed", "KeyOp_Skip_Not_Pressed", "Timer_Delay_Get",
                "KeyOp_Await", "Timer_Delay_Set", "Sound_Set", "MEM_Add_I",
                "MEM_Set_Sprite_I", "BCD", "MEM_Reg_Dump", "MEM_Reg_Load"} |-> {"op", "x"}]

\* C26: the word at the PC decodes to one variant of OpCode, carrying that
\* variant's operands and no others, with x = bits 8-11, y = bits 4-7,
\* n = bits 0-3, nn = the low byte and nnn = the low 12 bits of the word; the
\* variant is Unknown exactly for a word of group 0x8 whose low nibble is not
\* one of 0..7, E, of group 0xE whose low byte is not 9E or A1, and of group
\* 0xF whose low byte is not one of 07, 0A, 15, 18, 1E, 29, 33, 55, 65.
C26_Decode ==
  LET word == fetch(CurrentFrame)
      code == decode(word)
      group == word \div 4096
      unknown ==
        \/ group = 8 /\ word % 16 \notin {0, 1, 2, 3, 4, 5, 6, 7, 14}
        \/ group = 14 /\ word % 256 \notin {158, 161}
        \/ group = 15 /\ word % 256 \notin {7, 10, 21, 24, 30, 41, 51, 85, 101}
  IN  /\ code.op \in DOMAIN OpFields
      /\ DOMAIN code = OpFields[code.op]
      /\ "x" \in DOMAIN code => code.x = (word \div 256) % 16
      /\ "y" \in DOMAIN code => code.y = (word \div 16) % 16
      /\ "n" \in DOMAIN code => code.n = word % 16
      /\ "nn" \in DOMAIN code => code.nn = word % 256
      /\ "nnn" \in DOMAIN code => code.nnn = word % 4096
      /\ code.op = "Unknown" <=> unknown

\* E09F, one off skip-if-pressed, was decoded as Unknown and passed over.
C26_Witness ==
  /\ cycles = 1
  /\ rom_bytes = << 224, 159 >>
  /\ CurrentFrame.PC = 514
  /\ pc = "loop"

\* C27: a cycle that executes an Unknown word or a raw call 0NNN advances the
\* PC by exactly 2 and answers Ok; registers, memory, I and stack are as
\* before, the timers are counted down and not set, and the Display and the
\* Audio flag are untouched.
C27_NotImplemented ==
  [][(CycleStep /\ CurrentOp \in {"Unknown", "Raw_Call"}) =>
       /\ CurrentFrameAfter.PC = CurrentFrame.PC + 2
       /\ tick_result' = "Ok"
       /\ Core(CurrentFrameAfter) = Core(CurrentFrame)
       /\ CurrentFrameAfter.delay_timer = CountedDown(CurrentFrame.delay_timer)
       /\ CurrentFrameAfter.sound_timer = CountedDown(CurrentFrame.sound_timer)
       /\ display' = display
       /\ playing' = playing]_vars

\* The raw call 0123 was passed over with the Display lit, the Audio flag
\* set and a return address on the stack.
C27_Witness ==
  /\ cycles = 1
  /\ rom_bytes = << 1, 35 >>
  /\ CurrentFrame.PC = 514
  /\ CurrentFrame.stack # << >>
  /\ CurrentFrame.registers[3] = 19
  /\ display = DecodeScreen
  /\ playing

(***************************************************************************)
(* Sprite draw: D01n at PC_START, the position in V0 and V1, the sprite's  *)
(* rows at I, on a Display that is blank or has every third pixel lit.     *)
(***************************************************************************)
MaxDrawCycles == 1

DrawHeights == {0, 1, 2, 15}

DrawXs == {0, 57, 60, 63, 64, 255}

DrawYs == {0, 31, 32, 255}

\* The byte every row of the sprite holds.
DrawRows == {0, 129, 255}

DrawI == 768

LitScreen == [p \in {q \in 0 .. SCREEN_SIZE - 1 : q % 3 = 0} |-> 1]

DrawScreens == {EmptyScreen, LitScreen}

DrawFrame(height, x, y, row, screen) ==
  [AluFrame(13 * 4096 + 16 + height, x, y) EXCEPT
     !.I = DrawI,
     !.memory = Store(@, [a \in DrawI .. DrawI + 15 |-> row]),
     !.screen = screen]

InitDraw ==
  /\ \E height \in DrawHeights, x \in DrawXs, y \in DrawYs, row \in DrawRows :
       /\ rom_bytes = << 13 * 16, 16 + height >>
       /\ display \in DrawScreens
       /\ frames = << DrawFrame(height, x, y, row, display) >>
  /\ new_result = "Ok"
  /\ nexts = Uncounted
  /\ unbroken = Uncounted
  /\ frame_pointer = 0
  /\ tick_timer = 0
  /\ tick_duration = TickDuration(VM_ORIGINAL_HZ)
  /\ enabled \in BOOLEAN
  /\ enable_break = FALSE
  /\ consumer = << >>
  /\ playing = FALSE
  /\ pressed_keys = << >>
  /\ pc = "loop"
  /\ delta = 0
  /\ result = FALSE
  /\ tick_result = "Ok"
  /\ cycles = 0
  /\ stepped = FALSE
  /\ drained = NothingDrained
  /\ at_call = NoCall
  /\ alive = TRUE
  /\ joined = FALSE
  /\ NoLocking

ExecuteDrawCycle(number) == ExecuteCycleWithin(MaxDrawCycles, number)

NextDraw ==
  \/ \E d \in DecodeDeltas : TickAccumulate(d)
  \/ \E d \in DecodeDeltas : TickCross(d)
  \/ \E number \in RandomBytes : ExecuteDrawCycle(number)

SpecDraw == InitDraw /\ [][NextDraw]_vars

\* The cycle about to run executes a sprite draw.
DrawStep == CycleStep /\ CurrentOp = "Disp"

\* Bit (7 - c) of row r of the sprite the draw about to run reads.
SpriteBitSet(r, c) == (At(CurrentFrame.memory, CurrentFrame.I + r) \div 2 ^ (7 - c)) % 2 = 1

\* Pixel (Vx + c, Vy + r) is on the screen.
OnScreen(r, c) == Vx + c < SCREEN_SIZE_X /\ Vy + r < SCREEN_SIZE_Y

PixelIndex(r, c) == (Vx + c) + (Vy + r) * SCREEN_SIZE_X

\* The sprite's rows and columns.
SpriteCells == (0 .. CurrentCode.n - 1) \X (0 .. 7)

\* The cells of the sprite whose bit is 1 and whose pixel is on the screen.
Landed == {cell \in SpriteCells : SpriteBitSet(cell[1], cell[2]) /\ OnScreen(cell[1], cell[2])}

\* C28: a sprite draw of height N at (Vx, Vy) leaves every pixel
\* (Vx + c, Vy + r) that is on the screen, r < N and c < 8, as it was XOR bit
\* (7 - c) of memory[I + r]; VF is 1 if a sprite bit that is 1 landed on a
\* pixel that was 1, else 0; no other register, no memory byte and not I
\* change, and the PC advances by 2.
C28_SpriteDraw ==
  [][DrawStep =>
       /\ \A cell \in SpriteCells :
            OnScreen(cell[1], cell[2]) =>
              At(display', PixelIndex(cell[1], cell[2])) =
                (At(display, PixelIndex(cell[1], cell[2]))
                   + (IF SpriteBitSet(cell[1], cell[2]) THEN 1 ELSE 0)) % 2
       /\ CurrentFrameAfter.registers[15] =
            IF \E cell \in Landed : At(display, PixelIndex(cell[1], cell[2])) = 1
            THEN 1 ELSE 0
       /\ \A r \in 0 .. 14 : CurrentFrameAfter.registers[r] = CurrentFrame.registers[r]
       /\ CurrentFrameAfter.memory = CurrentFrame.memory
       /\ CurrentFrameAfter.I = CurrentFrame.I
       /\ CurrentFrameAfter.PC = CurrentFrame.PC + 2]_vars

\* C29: a sprite pixel whose column Vx + c or row Vy + r is off the screen is
\* dropped: the draw changes no framebuffer pixel other than those an
\* on-screen sprite bit that is 1 landed on, and the collision flag is 0
\* unless one of these was lit.
C29_OffScreenDropped ==
  [][DrawStep =>
       /\ \A p \in 0 .. SCREEN_SIZE - 1 :
            (\A cell \in Landed : PixelIndex(cell[1], cell[2]) # p) =>
              At(display', p) = At(display, p)
       /\ (\A cell \in Landed : At(display, PixelIndex(cell[1], cell[2])) = 0) =>
            CurrentFrameAfter.registers[15] = 0]_vars

(***************************************************************************)
(* The framebuffer under draws that collide, a clear and the debugger's    *)
(* set_screen.                                                             *)
(***************************************************************************)
MaxScreenCycles == 4

\* D015 603E D015 00E0: draw the glyph at I = 0 at (0, 0), set V0 = 62, draw it
\* again at (62, 0), clear.
RomScreen == << 208, 21, 96, 62, 208, 21, 0, 224 >>

ScreenCommands == {"Next", "Previous"}

InitScreen ==
  /\ rom_bytes = RomScreen
  /\ new_result = "Ok"
  /\ nexts = Uncounted
  /\ unbroken = Uncounted
  /\ frames = << InitialFrame(rom_bytes) >>
  /\ frame_pointer = 0
  /\ tick_timer = 0
  /\ tick_duration = TickDuration(VM_ORIGINAL_HZ)
  /\ enabled \in BOOLEAN
  /\ enable_break = FALSE
  /\ consumer = << >>
  /\ display = EmptyScreen
  /\ playing = FALSE
  /\ pressed_keys = << >>
  /\ pc = "loop"
  /\ delta = 0
  /\ result = FALSE
  /\ tick_result = "Ok"
  /\ cycles = 0
  /\ stepped = FALSE
  /\ drained = NothingDrained
  /\ at_call = NoCall
  /\ alive = TRUE
  /\ joined = FALSE
  /\ NoLocking

ExecuteScreenCycle(number) == ExecuteCycleWithin(MaxScreenCycles, number)

NextScreen ==
  \/ \E command \in ScreenCommands : SendCommand(command)
  \/ ToggleBreak
  \/ \E d \in DecodeDeltas : TickAccumulate(d)
  \/ \E d \in DecodeDeltas : TickCross(d)
  \/ Recv
  \/ DrainEnd
  \/ \E number \in RandomBytes : ExecuteScreenCycle(number)

SpecScreen == InitScreen /\ [][NextScreen]_vars

\* Every byte of the framebuffer "screen" is 0 or 1.
Binary(screen) == \A p \in 0 .. SCREEN_SIZE - 1 : At(screen, p) \in {0, 1}

\* C30: every byte of the Display's framebuffer, and of the framebuffer copy
\* of every history frame, is 0 or 1 in every reachable state.
C30_BinaryPixels ==
  /\ Binary(display)
  /\ \A i \in 1 .. Len(frames) : Binary(frames[i].screen)

\* The second draw has collided with the first one, the Display shows lit
\* pixels, the history holds a lit and a blank framebuffer, and the debugger
\* has put an earlier frame's framebuffer back on the Display.
C30_Witness ==
  /\ enabled
  /\ Len(frames) >= 4
  /\ frames[4].registers[15] = 1
  /\ frame_pointer = 1
  /\ display = frames[2].screen
  /\ display # EmptyScreen
  /\ frames[1].screen = EmptyScreen

(***************************************************************************)
(* Register dump and load: the program Fx55, A<I0>, 6000 .. 6x00, Fx65     *)
(* dumps V0..Vx at I0, puts I back to I0, zeroes V0..Vx and loads them.    *)
(***************************************************************************)
MaxMemCycles == 19

MemXs == {0, 1, 7, 15}

\* The starting address: the font area, a blank area, the last address the
\* dump fits at.
MemI0s(x) == {0, 768, MEMORY_SIZE - 1 - x}

MemRegisters == { [r \in 0 .. REGISTER_COUNT - 1 |-> 16 + r],
                  [r \in 0 .. REGISTER_COUNT - 1 |-> 255 - 16 * r] }

RECURSIVE ZeroRegisters(_, _)
\* 6k00 for k = from .. x.
ZeroRegisters(from, x) ==
  IF from > x THEN << >> ELSE << 96 + from, 0 >> \o ZeroRegisters(from + 1, x)

RomMem(x, I0) ==
  << 240 + x, 85, 160 + (I0 \div U8), I0 % U8 >> \o ZeroRegisters(0, x) \o << 240 + x, 101 >>

InitMem ==
  /\ \E x \in MemXs :
       \E I0 \in MemI0s(x), registers \in MemRegisters :
         /\ rom_bytes = RomMem(x, I0)
         /\ frames = << [InitialFrame(rom_bytes) EXCEPT !.registers = registers, !.I = I0] >>
  /\ new_result = "Ok"
  /\ nexts = Uncounted
  /\ unbroken = Uncounted
  /\ frame_pointer = 0
  /\ tick_timer = 0
  /\ tick_duration = TickDuration(VM_ORIGINAL_HZ)
  /\ enabled \in BOOLEAN
  /\ enable_break = FALSE
  /\ consumer = << >>
  /\ display = EmptyScreen
  /\ playing = FALSE
  /\ pressed_keys = << >>
  /\ pc = "loop"
  /\ delta = 0
  /\ result = FALSE
  /\ tick_result = "Ok"
  /\ cycles = 0
  /\ stepped = FALSE
  /\ drained = NothingDrained
  /\ at_call = NoCall
  /\ alive = TRUE
  /\ joined = FALSE
  /\ NoLocking

ExecuteMemCycle(number) == ExecuteCycleWithin(MaxMemCycles, number)

NextMem ==
  \/ \E d \in DecodeDeltas : TickAccumulate(d)
  \/ \E d \in DecodeDeltas : TickCross(d)
  \/ \E number \in RandomBytes : ExecuteMemCycle(number)

SpecMem == InitMem /\ [][NextMem]_vars

\* The x of the program's dump and load, and the cycles the program takes.
MemX == rom_bytes[1] % 16

MemLength == MemX + 4

\* C31: with I0 + x < 4096, a register dump leaves memory[I0 + k] = Vk for
\* k in 0..x and I = I0 + x + 1; a register load leaves Vk = memory[I0 + k]
\* for k in 0..x and I = I0 + x + 1; once the program that dumps, puts I back,
\* zeroes V0..Vx and loads has run, V0..Vx hold their original values.
C31_DumpLoad ==
  /\ [][CycleStep /\ CurrentOp = "MEM_Reg_Dump"
          /\ CurrentFrame.I + CurrentCode.x < MEMORY_SIZE =>
          /\ \A k \in 0 .. CurrentCode.x :
               At(CurrentFrameAfter.memory, CurrentFrame.I + k) = CurrentFrame.registers[k]
          /\ CurrentFrameAfter.I = CurrentFrame.I + CurrentCode.x + 1]_vars
  /\ [][CycleStep /\ CurrentOp = "MEM_Reg_Load"
          /\ CurrentFrame.I + CurrentCode.x < MEMORY_SIZE =>
          /\ \A k \in 0 .. CurrentCode.x :
               CurrentFrameAfter.registers[k] = At(CurrentFrame.memory, CurrentFrame.I + k)
          /\ CurrentFrameAfter.I = CurrentFrame.I + CurrentCode.x + 1]_vars
  /\ [](enabled /\ cycles = MemLength =>
          \A k \in 0 .. MemX : CurrentFrame.registers[k] = frames[1].registers[k])

\* The program has run for x = 15: the registers were zero before the load
\* and hold their original, non-zero values after it.
C31_Witness ==
  /\ enabled
  /\ MemX = 15
  /\ cycles = MemLength
  /\ Len(frames) = MemLength + 1
  /\ \A k \in 0 .. 15 : frames[MemLength].registers[k] = 0
  /\ \A k \in 0 .. 15 : CurrentFrame.registers[k] = frames[1].registers[k]
  /\ \A k \in 0 .. 15 : CurrentFrame.registers[k] # 0
  /\ CurrentFrame.I = frames[1].I + 16

(***************************************************************************)
(* BCD: Fx33 at PC_START for every value of Vx, I in the font area, in a   *)
(* blank area and at the last address the three digits fit at.             *)
(***************************************************************************)
MaxBcdCycles == 1

BcdXs == {0, 15}

BcdIs == {0, DrawI, MEMORY_SIZE - 3}

InitBcd ==
  /\ \E x \in BcdXs, v \in 0 .. U8 - 1, I \in BcdIs :
       /\ rom_bytes = << 240 + x, 51 >>
       /\ frames = << [AluFrame(61440 + x * 256 + 51, v, 19) EXCEPT !.I = I] >>
  /\ new_result = "Ok"
  /\ nexts = Uncounted
  /\ unbroken = Uncounted
  /\ frame_pointer = 0
  /\ tick_timer = 0
  /\ tick_duration = TickDuration(VM_ORIGINAL_HZ)
  /\ enabled \in BOOLEAN
  /\ enable_break = FALSE
  /\ consumer = << >>
  /\ display = EmptyScreen
  /\ playing = FALSE
  /\ pressed_keys = << >>
  /\ pc = "loop"
  /\ delta = 0
  /\ result = FALSE
  /\ tick_result = "Ok"
  /\ cycles = 0
  /\ stepped = FALSE
  /\ drained = NothingDrained
  /\ at_call = NoCall
  /\ alive = TRUE
  /\ joined = FALSE
  /\ NoLocking

ExecuteBcdCycle(number) == ExecuteCycleWithin(MaxBcdCycles, number)

NextBcd ==
  \/ \E d \in DecodeDeltas : TickAccumulate(d)
  \/ \E d \in DecodeDeltas : TickCross(d)
  \/ \E number \in RandomBytes : ExecuteBcdCycle(number)

SpecBcd == InitBcd /\ [][NextBcd]_vars

\* C32: the BCD instruction leaves memory[I] = Vx div 100, memory[I + 1] =
\* (Vx div 10) mod 10 and memory[I + 2] = Vx mod 10, digits in 0..9 whose
\* decimal value is Vx; I, the registers and every other memory byte are as
\* they were.
C32_Bcd ==
  [][CycleStep /\ CurrentOp = "BCD" =>
       LET I == CurrentFrame.I
           after == CurrentFrameAfter.memory
       IN  /\ At(after, I) = Vx \div 100
           /\ At(after, I + 1) = (Vx \div 10) % 10
           /\ At(after, I + 2) = Vx % 10
           /\ 100 * At(after, I) + 10 * At(after, I + 1) + At(after, I + 2) = Vx
           /\ \A k \in 0 .. 2 : At(after, I + k) \in 0 .. 9
           /\ CurrentFrameAfter.I = I
           /\ CurrentFrameAfter.registers = CurrentFrame.registers
           /\ \A a \in (DOMAIN after \cup DOMAIN CurrentFrame.memory) \ {I, I + 1, I + 2} :
                At(after, a) = At(CurrentFrame.memory, a)]_vars

\* The BCD of 255 has been written over the first font bytes: 2, 5, 5.
C32_Witness ==
  /\ cycles = 1
  /\ rom_bytes = << 255, 51 >>
  /\ CurrentFrame.registers[15] = 255
  /\ CurrentFrame.I = 0
  /\ At(CurrentFrame.memory, 0) = 2
  /\ At(CurrentFrame.memory, 1) = 5
  /\ At(CurrentFrame.memory, 2) = 5
  /\ At(CurrentFrame.memory, 3) = FONTS[4]

(***************************************************************************)
(* Setting a timer: Fx15 or Fx18 at PC_START for every value of Vx, then   *)
(* F107, which reads the delay timer into V1.  At hz = 0 a crossing call   *)
(* with delta 0 takes no time off the timers.                              *)
(***************************************************************************)
MaxSetCycles == 2

SetXs == {0, 15}

\* Fx15 and Fx18.
SetLowBytes == {21, 24}

\* What both timers hold before the set.
SetTimers == {Timer_new, [scaled |-> 200, nanos |-> 7]}

InitSet ==
  /\ \E x \in SetXs, low \in SetLowBytes, v \in 0 .. U8 - 1, timer \in SetTimers :
       /\ rom_bytes = << 240 + x, low, 241, 7 >>
       /\ frames = << [InitialFrame(rom_bytes) EXCEPT
                         !.registers = AluRegisters(x, x, v, v),
                         !.delay_timer = timer,
                         !.sound_timer = timer] >>
  /\ new_result = "Ok"
  /\ nexts = Uncounted
  /\ unbroken = Uncounted
  /\ frame_pointer = 0
  /\ tick_timer = 0
  /\ \E hz \in Hzs : tick_duration = TickDuration(hz)
  /\ enabled = FALSE
  /\ enable_break = FALSE
  /\ consumer = << >>
  /\ display = EmptyScreen
  /\ playing = FALSE
  /\ pressed_keys = << >>
  /\ pc = "loop"
  /\ delta = 0
  /\ result = FALSE
  /\ tick_result = "Ok"
  /\ cycles = 0
  /\ stepped = FALSE
  /\ drained = NothingDrained
  /\ at_call = NoCall
  /\ alive = TRUE
  /\ joined = FALSE
  /\ NoLocking

ExecuteSetCycle(number) == ExecuteCycleWithin(MaxSetCycles, number)

NextSet ==
  \/ \E d \in Deltas : TickAccumulate(d)
  \/ \E d \in Deltas : TickCross(d)
  \/ \E number \in RandomBytes : ExecuteSetCycle(number)

SpecSet == InitSet /\ [][NextSet]_vars

\* C33: a cycle that sets the delay (sound) timer from Vx leaves a timer whose
\* scaled value is Vx, and the sound (delay) timer as the cycle's countdown
\* alone leaves it, so unchanged when the cycle takes no time; the delay
\* timer read back by the next instruction, with no time taken in between,
\* gives Vx.
C33_TimerSetGet ==
  /\ [][CycleStep /\ CurrentOp = "Timer_Delay_Set" =>
          /\ get_scaled(CurrentFrameAfter.delay_timer) = Vx
          /\ CurrentFrameAfter.sound_timer = CountedDown(CurrentFrame.sound_timer)
          /\ TimerDelta(tick_duration, delta) = 0 =>
               CurrentFrameAfter.sound_timer = CurrentFrame.sound_timer]_vars
  /\ [][CycleStep /\ CurrentOp = "Sound_Set" =>
          /\ get_scaled(CurrentFrameAfter.sound_timer) = Vx
          /\ CurrentFrameAfter.delay_timer = CountedDown(CurrentFrame.delay_timer)
          /\ TimerDelta(tick_duration, delta) = 0 =>
               CurrentFrameAfter.delay_timer = CurrentFrame.delay_timer]_vars
  /\ [][CycleStep /\ CurrentOp = "Timer_Delay_Get" /\ cycles = 1 /\ rom_bytes[2] = 21
          /\ TimerDelta(tick_duration, delta) = 0 =>
          CurrentFrameAfter.registers[1] = CurrentFrame.registers[rom_bytes[1] % 16]]_vars

\* The delay timer was set to 255 over an earlier value, read back as 255
\* with no time taken, and the sound timer still holds the earlier value.
C33_Witness ==
  /\ cycles = 2
  /\ rom_bytes = << 255, 21, 241, 7 >>
  /\ tick_duration = 0
  /\ CurrentFrame.registers[15] = 255
  /\ CurrentFrame.registers[1] = 255
  /\ get_scaled(CurrentFrame.delay_timer) = 255
  /\ CurrentFrame.sound_timer = [scaled |-> 200, nanos |-> 7]

(***************************************************************************)
(* The history as an execution trace.                                      *)
(***************************************************************************)
\* Frame "next" is what one cycle makes of frame "frame", for some delta,
\* held keys and random byte, on the Display showing the frame's screen.
OneCycle(frame, next) ==
  \E d \in Deltas, keys \in KeyStates, number \in RandomBytes, p \in BOOLEAN :
    LET m == Cycle(frame, frame.screen, p, tick_duration, d, keys, number)
    IN  ~m.panic /\ next = [m.frame EXCEPT !.screen = m.screen]

\* C34: with debugging enabled, every frame of the history but the first is
\* what one cycle makes of the frame before it.
C34_HistoryIsTrace ==
  enabled => \A i \in 1 .. Len(frames) - 1 : OneCycle(frames[i], frames[i + 1])

(***************************************************************************)
(* Next commands while broken.  The break flag is set from the start and   *)
(* stays set, only Next commands are sent, and the drains count the Next   *)
(* commands they process.  The history holds the initial frame, or the     *)
(* initial frame and its successor with the cursor moved back to 0.        *)
(***************************************************************************)
MaxNexts == 3

MaxNextCycles == 3

\* 7001 7001 7001 7001: V0 += 1, four times.
RomNext == << 112, 1, 112, 1, 112, 1, 112, 1 >>

NextHistories ==
  LET f0 == InitialFrame(RomNext)
      m == Cycle(f0, EmptyScreen, FALSE, TickDuration(VM_ORIGINAL_HZ), 0, << >>, 0)
  IN  { << f0 >>, << f0, [m.frame EXCEPT !.screen = m.screen] >> }

InitNext ==
  /\ rom_bytes = RomNext
  /\ new_result = "Ok"
  /\ nexts = 0
  /\ unbroken = Uncounted
  /\ frames \in NextHistories
  /\ frame_pointer = 0
  /\ tick_timer = 0
  /\ tick_duration = TickDuration(VM_ORIGINAL_HZ)
  /\ enabled = TRUE
  /\ enable_break = TRUE
  /\ consumer = << >>
  /\ display = EmptyScreen
  /\ playing = FALSE
  /\ pressed_keys = << >>
  /\ pc = "loop"
  /\ delta = 0
  /\ result = FALSE
  /\ tick_result = "Ok"
  /\ cycles = Len(frames) - 1
  /\ stepped = FALSE
  /\ drained = NothingDrained
  /\ at_call = NoCall
  /\ alive = TRUE
  /\ joined = FALSE
  /\ NoLocking

\* Runner::send_debugger_command(Next), MaxNexts times at most.
SendNext ==
  /\ nexts + Len(consumer) < MaxNexts
  /\ SendCommandWithin(MaxNexts, "Next")

ExecuteNextCycle(number) == ExecuteCycleWithin(MaxNextCycles, number)

NextNext ==
  \/ SendNext
  \/ \E d \in Deltas : TickAccumulate(d)
  \/ \E d \in Deltas : TickCross(d)
  \/ Recv
  \/ DrainEnd
  \/ \E number \in RandomBytes : ExecuteNextCycle(number)

SpecNext == InitNext /\ [][NextNext]_vars

\* C35: while broken, each Next command processed moves the cursor forward by
\* exactly one frame, by a replay step or by a newly executed cycle: between
\* two ticks the cursor, which started at 0, is as many frames ahead as Next
\* commands have been processed.
C35_NextStepsOnce == pc = "loop" => frame_pointer = nexts

(***************************************************************************)
(* The Audio flag after a set-sound-timer.  F018 1202: the sound timer is  *)
(* set from V0 and the program spins on the jump; cycles execute for ever, *)
(* and are counted up to MaxSoundCycles.                                   *)
(***************************************************************************)
MaxSoundCycles == 3

SoundValues == {0, 1, 3, 255}

RomSound == << 240, 24, 18, 2 >>

InitSound ==
  /\ rom_bytes = RomSound
  /\ new_result = "Ok"
  /\ nexts = Uncounted
  /\ unbroken = Uncounted
  /\ \E v \in SoundValues :
       frames = << [InitialFrame(rom_bytes) EXCEPT !.registers[0] = v] >>
  /\ frame_pointer = 0
  /\ tick_timer = 0
  /\ tick_duration = TickDuration(VM_ORIGINAL_HZ)
  /\ enabled = FALSE
  /\ enable_break = FALSE
  /\ consumer = << >>
  /\ display = EmptyScreen
  /\ playing = FALSE
  /\ pressed_keys = << >>
  /\ pc = "loop"
  /\ delta = 0
  /\ result = FALSE
  /\ tick_result = "Ok"
  /\ cycles = 0
  /\ stepped = FALSE
  /\ drained = NothingDrained
  /\ at_call = NoCall
  /\ alive = TRUE
  /\ joined = FALSE
  /\ NoLocking

ExecuteSoundCycle(number) ==
  ExecuteCycleCounting(TRUE, IF cycles < MaxSoundCycles THEN cycles + 1 ELSE cycles, number)

\* A call of tick, up to the gate.
SoundTick == \E d \in DecodeDeltas : TickAccumulate(d) \/ TickCross(d)

NextSound ==
  \/ SoundTick
  \/ \E number \in RandomBytes : ExecuteSoundCycle(number)

\* The Runner's loop calls tick again and again, and a tick let through the
\* gate executes its cycle: the thread never rests at the stage "cycle".
SpecSound ==
  /\ InitSound /\ [][NextSound]_vars
  /\ WF_vars(SoundTick)
  /\ []<>(pc # "cycle")

\* C36: after a set-sound-timer instruction, with cycles executing for ever
\* and no further set-sound-timer, the Audio flag eventually becomes false.
C36_SoundEnds == playing ~> ~playing

(***************************************************************************)
(* The flag register after the instructions that produce a flag, register  *)
(* 15 among the operands: 8xy4, 8xy5, 8xy7, 8xy6, 8xyE, Fx1E and Dxy1 at   *)
(* PC_START.                                                               *)
(***************************************************************************)
MaxFlagCycles == 1

FlagXs == {0, 15}

FlagYs == {1, 15}

FlagWords ==
  { 8 * 4096 + x * 256 + y * 16 + n : x \in FlagXs, y \in FlagYs, n \in {4, 5, 7, 6, 14} }
    \cup { 15 * 4096 + x * 256 + 30 : x \in FlagXs }
    \cup { 13 * 4096 + x * 256 + y * 16 + 1 : x \in FlagXs, y \in FlagYs }

\* I: the first font glyph, and the last address, which an addition overflows.
FlagIs == {0, U16 - 1}

FlagOps == {"Math_Add", "Math_Minus", "Math_Minus_Reverse", "BitOp_Shift_Right",
            "BitOp_Shift_Left", "Disp", "MEM_Add_I"}

InitFlag ==
  /\ \E word \in FlagWords, a \in AluBytes, b \in AluBytes, I \in FlagIs :
       /\ rom_bytes = << word \div U8, word % U8 >>
       /\ frames = << [AluFrame(word, a, b) EXCEPT !.I = I] >>
  /\ new_result = "Ok"
  /\ nexts = Uncounted
  /\ unbroken = Uncounted
  /\ frame_pointer = 0
  /\ tick_timer = 0
  /\ tick_duration = TickDuration(VM_ORIGINAL_HZ)
  /\ enabled = FALSE
  /\ enable_break = FALSE
  /\ consumer = << >>
  /\ display \in DrawScreens
  /\ playing = FALSE
  /\ pressed_keys = << >>
  /\ pc = "loop"
  /\ delta = 0
  /\ result = FALSE
  /\ tick_result = "Ok"
  /\ cycles = 0
  /\ stepped = FALSE
  /\ drained = NothingDrained
  /\ at_call = NoCall
  /\ alive = TRUE
  /\ joined = FALSE
  /\ NoLocking

ExecuteFlagCycle(number) == ExecuteCycleWithin(MaxFlagCycles, number)

NextFlag ==
  \/ \E d \in DecodeDeltas : TickAccumulate(d)
  \/ \E d \in DecodeDeltas : TickCross(d)
  \/ \E number \in RandomBytes : ExecuteFlagCycle(number)

SpecFlag == InitFlag /\ [][NextFlag]_vars

\* C37: after a cycle that executes an instruction producing a flag (add,
\* subtract, reverse subtract, shift right, shift left, sprite draw, add
\* register to I), whatever its operand registers, register 15 holds 0 or 1.
C37_FlagIsBit ==
  [][CycleStep /\ CurrentOp \in FlagOps => CurrentFrameAfter.registers[15] \in {0, 1}]_vars

(***************************************************************************)
(* Commands sent while the machine runs with the debugger enabled.         *)
(***************************************************************************)
MaxResumePending == 2

InitResume == InitQueueCounting(0)

NextResume ==
  \/ \E command \in Commands : SendCommandWithin(MaxResumePending, command)
  \/ ToggleBreak
  \/ \E d \in Deltas : TickAccumulate(d)
  \/ \E d \in Deltas : TickCross(d)
  \/ Recv
  \/ DrainEnd
  \/ \E number \in RandomBytes : ExecuteQueueCycle(number)

SpecResume == InitResume /\ [][NextResume]_vars

\* A step that takes nothing off the channel.
NothingConsumed ==
  \/ consumer' = consumer
  \/ \E command \in Commands : consumer' = Append(consumer, command)

\* A call of tick that goes past the threshold and reads the break flag.
CrossingStep == pc = "loop" /\ tick_timer > tick_duration /\ tick_timer' # tick_timer

\* The command about to be taken was sent with the break flag clear, and the
\* flag has been clear ever since.
HeadUnbroken == unbroken = Len(consumer) /\ consumer # << >>

\* C38 as stated: with debugging enabled, a command sent with the break flag
\* clear is not taken off the channel for as long as the flag stays clear; a
\* crossing tick that finds the flag set starts a drain, which applies the
\* commands oldest first and ends only when the channel is empty.
C38_QueuedWhileClear ==
  [][/\ (enabled /\ HeadUnbroken) => NothingConsumed
     /\ (CrossingStep /\ enabled /\ enable_break) => pc' = "drain"
     /\ RecvStep => DebuggerState' = process_debugger_command(DebuggerState, Head(consumer))
     /\ DrainEndStep => consumer = << >>]_vars

\* C38, amended: what counts is the break flag as the crossing tick read it.
\* A tick starts a drain only by crossing the threshold with debugging enabled
\* and the break flag set, and the crossing itself takes no command; outside a
\* drain no step takes a command off the channel, and the history and cursor
\* change only by an executed cycle, whose frame does not depend on the
\* channel; a drain applies the waiting commands oldest first, one per
\* removal, changes history and cursor in no other way, and ends only when
\* the channel is empty, whatever the break flag has become meanwhile.
C38_QueuedUntilBrokenTick ==
  [][/\ pc # "drain" =>
          /\ NothingConsumed
          /\ pc' = "drain" =>
               /\ CrossingStep /\ enabled /\ enable_break
               /\ UNCHANGED << consumer, frames, frame_pointer >>
          /\ (frames' # frames \/ frame_pointer' # frame_pointer) =>
               /\ pc = "cycle"
               /\ cycles' = cycles + 1
               /\ frames'[frame_pointer' + 1] \in Produced
     /\ (CrossingStep /\ enabled /\ enable_break) => pc' = "drain"
     /\ pc = "drain" =>
          \/ /\ RecvStep
             /\ pc' = "drain"
             /\ DebuggerState' = process_debugger_command(DebuggerState, Head(consumer))
          \/ /\ \E command \in Commands : consumer' = Append(consumer, command)
             /\ pc' = "drain"
             /\ UNCHANGED << frames, frame_pointer, result >>
          \/ /\ consumer' = consumer
             /\ UNCHANGED << frames, frame_pointer >>
             /\ pc' # "drain" => consumer = << >>]_vars

\* A cycle ran with the break flag clear, and the drain of a later tick that
\* found the flag set has taken every waiting command, one of which moved the
\* cursor back.
C38_Witness ==
  /\ pc = "drain"
  /\ at_call.broken
  /\ cycles = MaxQueueCycles
  /\ drained.any
  /\ consumer = << >>
  /\ frame_pointer < at_call.frame_pointer

(***************************************************************************)
(* Programs that send PC or I to the end of memory.                        *)
(***************************************************************************)
MaxBoundsCycles == 3

\* 1FFF jumps to the last byte of memory.  AFFF sets I to it; F033 then
\* stores three digits there, D011 reads a sprite row, F155 dumps and F165
\* loads two registers.  00E0 1200 clears the screen for ever.
BoundsRoms ==
  { << 31, 255 >>,
    << 175, 255, 240, 51 >>,
    << 175, 255, 208, 17 >>,
    << 175, 255, 241, 85 >>,
    << 175, 255, 241, 101 >>,
    << 0, 224, 18, 0 >> }

InitBounds ==
  /\ rom_bytes \in BoundsRoms
  /\ new_result = Vm_new(rom_bytes, VM_ORIGINAL_HZ).result
  /\ nexts = Uncounted
  /\ unbroken = Uncounted
  /\ frames = Vm_new(rom_bytes, VM_ORIGINAL_HZ).frames
  /\ frame_pointer = Vm_new(rom_bytes, VM_ORIGINAL_HZ).frame_pointer
  /\ tick_timer = Vm_new(rom_bytes, VM_ORIGINAL_HZ).tick_timer
  /\ tick_duration = Vm_new(rom_bytes, VM_ORIGINAL_HZ).tick_duration
  /\ enabled \in BOOLEAN
  /\ enable_break = FALSE
  /\ consumer = << >>
  /\ display = EmptyScreen
  /\ playing = FALSE
  /\ pressed_keys = << >>
  /\ pc = "loop"
  /\ delta = 0
  /\ result = FALSE
  /\ tick_result = "Ok"
  /\ cycles = 0
  /\ stepped = FALSE
  /\ drained = NothingDrained
  /\ at_call = NoCall
  /\ alive = TRUE
  /\ joined = FALSE
  /\ NoLocking

ExecuteBoundsCycle(number) == ExecuteCycleWithin(MaxBoundsCycles, number)

NextBounds ==
  \/ \E keys \in KeyStates : UpdateKeys(keys)
  \/ \E d \in Deltas : TickAccumulate(d)
  \/ \E d \in Deltas : TickCross(d)
  \/ \E number \in RandomBytes : ExecuteBoundsCycle(number)

SpecBounds == InitBounds /\ [][NextBounds]_vars

\* C39: whatever ROM construction accepted, no executed cycle indexes memory
\* outside 0 .. 4095, neither at the fetch nor through I: the machine thread
\* never panics.
C39_NoOutOfRange == new_result = "Ok" => pc # "panicked"

====
